---- MODULE Spec2Model ----
(***************************************************************************)
(* K-line time engine of common-rs: trading calendar, session windows,     *)
(* next_minute, the 1m bucketer, the period router and the initializers    *)
(* of the two generations of the code (src/qh and src/hq/future).          *)
(*                                                                         *)
(* Dates are day ordinals; day 0 is a Monday.  Times of day are seconds    *)
(* since midnight; Hms values are the hhmmss / hhmm integers of ymdhms.rs. *)
(***************************************************************************)
EXTENDS Integers, Sequences, FiniteSets, TLC

\* ------------------------------------------------------------------ bounds
MaxDay == 9
MaxHolidays == 2
NTasks == 2
MaxCalls == 2
LongMaxDay == 63
MaxBlock == 8

\* ------------------------------------------------------- shared time types
DaySecs == 86400

MkTime(h, m, s) == h * 3600 + m * 60 + s

Hour(tod) == tod \div 3600
Minute(tod) == (tod \div 60) % 60
Second(tod) == tod % 60

\* Hms::from_hms / Hms::from(&time): the hhmmss and hhmm integers
HmsOfTime(tod) == Hour(tod) * 10000 + Minute(tod) * 100 + Second(tod)
HhmmOfHms(hhmmss) == hhmmss \div 100
HhmmOfTime(tod) == HhmmOfHms(HmsOfTime(tod))

\* NaiveTime::from(&Hms)
TimeOfHms(hhmmss) ==
    MkTime(hhmmss \div 10000, (hhmmss \div 100) % 100, hhmmss % 100)

\* TimeRangeHms::new(shhmmss, ehhmmss)
TimeRangeHms(s, e) == [start |-> s, end |-> e]

Dt(date, tod) == [date |-> date, tod |-> tod]

\* NaiveDateTime + Duration::minutes(n), n >= 0
AddMinutes(dt, n) ==
    LET t == dt.tod + 60 * n
    IN  Dt(dt.date + (t \div DaySecs), t % DaySecs)

\* NaiveTime + Duration::minutes(1) wraps around midnight
TimeAddMinute(tod) == (tod + 60) % DaySecs

\* Result<T, E>
Ok(v) == [ok |-> TRUE, v |-> v, err |-> "none"]
Err(e) == [ok |-> FALSE, v |-> 0, err |-> e]

\* Option<T>
Some(v) == [some |-> TRUE, v |-> v]
None == [some |-> FALSE, v |-> 0]

\* Vec::get(i) with the 0-based index of the source
VecGet(vec, i) == IF i >= 0 /\ i < Len(vec) THEN Some(vec[i + 1]) ELSE None

\* ------------------------------------------------------- calendar database
Weekday(d) == d % 7

Days == 0 .. MaxDay

WeekDays == { d \in Days : Weekday(d) < 5 }

\* the trading-day tables the store can hold: the weekdays minus holidays
Calendars ==
    { WeekDays \ h : h \in { s \in SUBSET WeekDays :
                                Cardinality(s) <= MaxHolidays } }

\* trading-day tables over two months: the weekdays minus one run of holidays
LongDays == 0 .. LongMaxDay

BlockStarts == { 4, 7, 9, 25, 29, 30, 31, 56, 59 }

LongCalendars ==
    { { d \in LongDays : Weekday(d) < 5 /\ ~(a <= d /\ d < a + n) } :
        a \in BlockStarts, n \in 0 .. MaxBlock }

RECURSIVE SortedSeq(_)
\* ORDER BY trading_day
SortedSeq(s) ==
    IF s = {} THEN << >>
    ELSE LET m == CHOOSE x \in s : \A y \in s : x <= y
         IN  << m >> \o SortedSeq(s \ {m})

\* the exchange's next / previous business day of a date (weekends skipped),
\* used for the TDNext / TDREF columns that point outside the loaded rows
NextWeekday(d) == IF Weekday(d) = 4 THEN d + 3
                  ELSE IF Weekday(d) = 5 THEN d + 2 ELSE d + 1
PrevWeekday(d) == IF Weekday(d) = 0 THEN d - 3
                  ELSE IF Weekday(d) = 6 THEN d - 2 ELSE d - 1

\* ----------------------------------------------- qh::trading_day (src/qh)
DayInfo(is_td, prev_idx, idx, next_idx, has_night) ==
    [is_td |-> is_td, prev_idx |-> prev_idx, idx |-> idx,
     next_idx |-> next_idx, has_night |-> has_night]

EmptyMap == [x \in {} |-> 0]

\* TradingDayUtil::default()
TduDefault == [td_vec |-> << >>, day_info_map |-> EmptyMap]

\* first loop of init_from_db: one DayInfo per row
TduTradingInfo(rows) ==
    [ d \in { rows[i] : i \in 1 .. Len(rows) } |->
        LET i == CHOOSE k \in 1 .. Len(rows) : rows[k] = d
            idx == i - 1
            has_night == IF i = 1 THEN TRUE
                         ELSE LET diff == rows[i] - rows[i - 1]
                              IN  diff = 1 \/ diff = 3
        IN  DayInfo(TRUE, IF idx = 0 THEN 0 ELSE idx - 1, idx, idx + 1,
                    has_night) ]

RECURSIVE TduBackfillNoStepBack(_, _, _, _)
\* the back-fill loop without its idx -= 1 (a seeded fault)
TduBackfillNoStepBack(date, end_date, idx, map) ==
    IF date >= end_date THEN map
    ELSE IF date \in DOMAIN map
         THEN TduBackfillNoStepBack(date + 1, end_date, idx + 1, map)
         ELSE TduBackfillNoStepBack(date + 1, end_date, idx + 1,
                  map @@ (date :> DayInfo(FALSE, idx, idx + 1, idx + 1, FALSE)))

RECURSIVE TduBackfill(_, _, _, _)
\* second loop of init_from_db: back-fill the non-trading days
TduBackfill(date, end_date, idx, map) ==
    IF date >= end_date THEN map
    ELSE IF date \in DOMAIN map
         THEN TduBackfill(date + 1, end_date, idx + 1, map)
         ELSE LET i == idx - 1
                  n_idx == i + 1
              IN  TduBackfill(date + 1, end_date, i + 1,
                      map @@ (date :> DayInfo(FALSE, i, n_idx, n_idx, FALSE)))

\* init_from_db up to the end of its first loop, the last await: the rows
\* read into the table being built, not yet back-filled
TduRowsRead(rows) ==
    [td_vec |-> rows,
     day_info_map |-> IF Len(rows) = 0 THEN EmptyMap ELSE TduTradingInfo(rows)]

\* init_from_db after its first loop: the Empty error, or the back-fill
TduFinish(inner) ==
    IF Len(inner.td_vec) = 0 THEN Err("Empty")
    ELSE Ok([td_vec |-> inner.td_vec,
             day_info_map |->
                 TduBackfill(inner.td_vec[1],
                             inner.td_vec[Len(inner.td_vec)], 0,
                             inner.day_info_map)])

\* TradingDayUtil::init_from_db on the sorted rows of the store
TduInitFromDb(rows) == TduFinish(TduRowsRead(rows))

\* the table loaded in place, inside the published value, as the
\* commented-out init did (a seeded fault)
TduSharedInPlace(published, new_inner) == new_inner

\* TradingDayUtil::init while init_from_db awaits rows: what current()
\* hands out; the table is built in the local new_inner
TduSharedWhileLoading(published, new_inner) == published

TduIsEmpty(tdu) == Len(tdu.td_vec) = 0

\* is_td answering for every date the map holds (a seeded fault)
TduIsTdKnown(tdu, day) == day \in DOMAIN tdu.day_info_map

TduIsTd(tdu, day) ==
    IF day \in DOMAIN tdu.day_info_map THEN tdu.day_info_map[day].is_td
    ELSE FALSE

TduHasNight(tdu, day) ==
    IF day \in DOMAIN tdu.day_info_map THEN tdu.day_info_map[day].has_night
    ELSE FALSE

\* prev without the guard on the first trading day (a seeded fault)
TduPrevUnguarded(tdu, day) ==
    IF day \notin DOMAIN tdu.day_info_map THEN Err("PrevTradingDay")
    ELSE LET r == VecGet(tdu.td_vec, tdu.day_info_map[day].prev_idx)
         IN  IF r.some THEN Ok(r.v) ELSE Err("PrevTradingDay")

TduPrev(tdu, day) ==
    IF day \notin DOMAIN tdu.day_info_map THEN Err("PrevTradingDay")
    ELSE LET v == tdu.day_info_map[day]
             r == IF v.idx = 0 THEN None ELSE VecGet(tdu.td_vec, v.prev_idx)
         IN  IF r.some THEN Ok(r.v) ELSE Err("PrevTradingDay")

TduNext(tdu, day) ==
    IF day \notin DOMAIN tdu.day_info_map THEN Err("NextTradingDay")
    ELSE LET v == tdu.day_info_map[day]
             r == VecGet(tdu.td_vec, v.next_idx)
         IN  IF r.some THEN Ok(r.v) ELSE Err("NextTradingDay")

RECURSIVE TduPrevSlowFrom(_, _, _, _)
TduPrevSlowFrom(tdu, day, i, p_td) ==
    IF i > Len(tdu.td_vec) THEN Err("PrevTradingDay")
    ELSE IF tdu.td_vec[i] >= day THEN p_td
         ELSE TduPrevSlowFrom(tdu, day, i + 1, Ok(tdu.td_vec[i]))

TduPrevSlow(tdu, day) == TduPrevSlowFrom(tdu, day, 1, Err("PrevTradingDay"))

RECURSIVE TduNextSlowFrom(_, _, _)
TduNextSlowFrom(tdu, day, i) ==
    IF i > Len(tdu.td_vec) THEN Err("NextTradingDay")
    ELSE IF tdu.td_vec[i] > day THEN Ok(tdu.td_vec[i])
         ELSE TduNextSlowFrom(tdu, day, i + 1)

TduNextSlow(tdu, day) == TduNextSlowFrom(tdu, day, 1)

\* --------------------------------------- hq::future::trade_day (src/hq)
\* rows of basedata.tbl_calendar_data for a trading-day table: TDNext and
\* TDREF are the neighbouring trading days, Night is 1 when the evening of
\* the day opens a night session (no holiday before the next business day)
HqNextOf(days, d) ==
    LET later == { x \in days : x > d }
    IN  IF later = {} THEN NextWeekday(d)
        ELSE CHOOSE x \in later : \A y \in later : x <= y

HqPrevOf(days, d) ==
    LET earlier == { x \in days : x < d }
    IN  IF earlier = {} THEN PrevWeekday(d)
        ELSE CHOOSE x \in earlier : \A y \in earlier : x >= y

TradeDayDbItem(days, d) ==
    [td_day |-> d, td_next |-> HqNextOf(days, d), td_prev |-> HqPrevOf(days, d),
     night |-> IF HqNextOf(days, d) = NextWeekday(d) THEN 1 ELSE 0]

HqCalendarRows(days) ==
    LET sorted == SortedSeq(days)
    IN  [ i \in 1 .. Len(sorted) |-> TradeDayDbItem(days, sorted[i]) ]

\* impl From<TradeDayDbItem> for TradeDay
TradeDayFrom(item) ==
    [is_trade_day |-> TRUE, day |-> item.td_day, td_next |-> item.td_next,
     td_prev |-> item.td_prev, has_night |-> item.night = 1]

\* the gap records inserted between two consecutive rows
HqGapRecords(prev, item) ==
    [ day \in { x \in (prev.day + 1) .. (item.td_day - 1) : TRUE } |->
        [is_trade_day |-> FALSE, day |-> day, td_next |-> prev.td_next,
         td_prev |-> prev.day, has_night |-> FALSE] ]

RECURSIVE HqTradeDayLoop(_, _, _, _)
HqTradeDayLoop(rows, i, prev_day_info, hmap) ==
    IF i > Len(rows) THEN hmap
    ELSE LET item == rows[i]
             gaps == IF prev_day_info.some
                     THEN HqGapRecords(prev_day_info.v, item)
                     ELSE EmptyMap
             day_info == TradeDayFrom(item)
         IN  HqTradeDayLoop(rows, i + 1, Some(day_info),
                 (item.td_day :> day_info) @@ gaps @@ hmap)

\* the map trade_day::init_from_db stores in TRADE_DAY_HMAP
HqTradeDayBuild(rows) == HqTradeDayLoop(rows, 1, None, EmptyMap)

\* a panic of the calling task (unwrap on None / on Err)
Panic == [ok |-> FALSE, v |-> 0, err |-> "panic"]

\* OnceLock<T>
LockUnset == [isSet |-> FALSE, v |-> EmptyMap]
LockSet(v) == [isSet |-> TRUE, v |-> v]

\* trade_day::trade_day
HqTradeDay(lock, day) ==
    IF ~lock.isSet THEN Panic
    ELSE IF day \notin DOMAIN lock.v THEN Panic
    ELSE Ok(lock.v[day])

\* trade_day::has_night
HqHasNight(lock, day) ==
    IF ~lock.isSet THEN Panic
    ELSE IF day \in DOMAIN lock.v THEN Ok(lock.v[day].has_night)
    ELSE Ok(FALSE)

\* trade_day::next_trade_day
HqNextTradeDay(lock, day) ==
    IF ~lock.isSet THEN Panic
    ELSE IF day \notin DOMAIN lock.v THEN Panic
    ELSE LET v == lock.v[day]
         IN  IF v.td_next \notin DOMAIN lock.v THEN Panic
             ELSE Ok(lock.v[v.td_next])

\* ------------------------------- qh::klinetime::tx_time_range (src/qh)
\* rows of hqdb.tbl_future_tx_time_range: breed and the numbers of its
\* rangelist text, e.g. "[(2101,230),(901,1015),(1031,1130),(1331,1500)]"
QhRangeRows ==
    ("IC" :> << 931, 1130, 1301, 1500 >>) @@
    ("TF" :> << 931, 1130, 1301, 1515 >>) @@
    ("AP" :> << 901, 1015, 1031, 1130, 1331, 1500 >>) @@
    ("A"  :> << 2101, 2300, 901, 1015, 1031, 1130, 1331, 1500 >>) @@
    ("AL" :> << 2101, 100, 901, 1015, 1031, 1130, 1331, 1500 >>) @@
    ("AG" :> << 2101, 230, 901, 1015, 1031, 1130, 1331, 1500 >>)

\* str::to_uppercase on the breed identifiers callers use
ToUppercase(b) ==
    CASE b = "ag" -> "AG"
      [] b = "al" -> "AL"
      [] b = "a" -> "A"
      [] b = "ic" -> "IC"
      [] OTHER -> b

\* str::to_lowercase on the breed identifiers callers use
ToLowercase(b) ==
    CASE b = "AG" -> "ag"
      [] b = "AL" -> "al"
      [] b = "A" -> "a"
      [] b = "IC" -> "ic"
      [] b = "TF" -> "tf"
      [] b = "AP" -> "ap"
      [] b = "LR" -> "lr"
      [] b = "SA" -> "sa"
      [] b = "ZZ" -> "zz"
      [] OTHER -> b

\* the upper-cased spelling of a caller's breed string (all inputs)
UpperOf(b) ==
    CASE b = "zn" -> "ZN"
      [] b = "tf" -> "TF"
      [] b = "ap" -> "AP"
      [] OTHER -> ToUppercase(b)

\* impl From<TxTimeRangeDbItem> for BreedTxTimeRange
BreedTxTimeRangeFrom(breed, value_vec) ==
    LET first_value == value_vec[1]
        second_value == value_vec[2]
        need_fix == first_value > second_value
        range_len == Len(value_vec) \div 2
        range_vec == [ i \in 1 .. range_len |->
                         TimeRangeHms(value_vec[2 * i - 1] * 100,
                                      value_vec[2 * i] * 100) ]
        fix_head == IF need_fix
                    THEN << TimeRangeHms(range_vec[1].start, 235959),
                            TimeRangeHms(0, range_vec[1].end) >>
                    ELSE << range_vec[1] >>
    IN  [breed |-> breed,
         has_night |-> first_value = 2101,
         tr_vec |-> range_vec,
         tr_vec_fix |-> fix_head \o SubSeq(range_vec, 2, range_len),
         range_end_hmap |-> { range_vec[i].end : i \in 1 .. range_len }]

\* TxTimeRangeData::default()
TrdDefault == [breed_ttr_hmap |-> EmptyMap]

\* TxTimeRangeData::init_from_db
TrdInitFromDb(rows) ==
    [breed_ttr_hmap |->
        [ b \in DOMAIN rows |-> BreedTxTimeRangeFrom(b, rows[b]) ]]

TrdIsEmpty(trd) == DOMAIN trd.breed_ttr_hmap = {}

\* the range test of the loop in BreedTxTimeRange::next_minute
QhInRange(tr, hhmm) ==
    \/ /\ tr.start > tr.end
       /\ \/ (HhmmOfHms(tr.start) <= hhmm /\ hhmm <= 2359)
          \/ (0 <= hhmm /\ hhmm <= HhmmOfHms(tr.end))
    \/ (HhmmOfHms(tr.start) <= hhmm /\ hhmm <= HhmmOfHms(tr.end))

\* index (1-based) of the first range the loop matches, 0 if none
QhFirstRange(tr_vec, hhmm) ==
    LET hits == { i \in 1 .. Len(tr_vec) : QhInRange(tr_vec[i], hhmm) }
    IN  IF hits = {} THEN 0
        ELSE CHOOSE i \in hits : \A j \in hits : i <= j

\* the match on hhmm testing has_night of the date itself instead of the
\* next trading day (a seeded fault)
QhCloseDateByToday(btr, tdu, hhmm, yyyymmdd) ==
    LET end_hhmm == HhmmOfHms(btr.tr_vec[Len(btr.tr_vec)].end)
        next_td == TduNext(tdu, yyyymmdd)
    IN  IF hhmm = 2300
        THEN [ymd |-> next_td, day_open |-> FALSE]
        ELSE IF hhmm = 100 \/ hhmm = 230
        THEN [ymd |-> IF TduIsTd(tdu, yyyymmdd) THEN Ok(yyyymmdd) ELSE next_td,
              day_open |-> FALSE]
        ELSE IF hhmm = end_hhmm
        THEN IF ~next_td.ok
             THEN [ymd |-> next_td, day_open |-> FALSE]
             ELSE IF btr.has_night
             THEN IF TduHasNight(tdu, yyyymmdd)
                  THEN [ymd |-> Ok(yyyymmdd), day_open |-> FALSE]
                  ELSE [ymd |-> next_td, day_open |-> TRUE]
             ELSE [ymd |-> next_td, day_open |-> FALSE]
        ELSE [ymd |-> Ok(yyyymmdd), day_open |-> FALSE]

\* the date chosen by the match on hhmm at a range end
QhCloseDate(btr, tdu, hhmm, yyyymmdd) ==
    LET end_hhmm == HhmmOfHms(btr.tr_vec[Len(btr.tr_vec)].end)
        next_td == TduNext(tdu, yyyymmdd)
    IN  IF hhmm = 2300
        THEN [ymd |-> next_td, day_open |-> FALSE]
        ELSE IF hhmm = 100 \/ hhmm = 230
        THEN [ymd |-> IF TduIsTd(tdu, yyyymmdd) THEN Ok(yyyymmdd) ELSE next_td,
              day_open |-> FALSE]
        ELSE IF hhmm = end_hhmm
        THEN IF ~next_td.ok
             THEN [ymd |-> next_td, day_open |-> FALSE]
             ELSE IF btr.has_night
             THEN IF TduHasNight(tdu, next_td.v)
                  THEN [ymd |-> Ok(yyyymmdd), day_open |-> FALSE]
                  ELSE [ymd |-> next_td, day_open |-> TRUE]
             ELSE [ymd |-> next_td, day_open |-> FALSE]
        ELSE [ymd |-> Ok(yyyymmdd), day_open |-> FALSE]

\* next_minute with next_idx = v + 1, without the wrap to the first range:
\* the unwrap of tr_vec.get(next_idx) panics at the last range end (a seeded
\* fault)
BreedNextMinuteNoWrap(btr, tdu, datetime) ==
    LET hhmm == HhmmOfTime(datetime.tod)
        hit == QhFirstRange(btr.tr_vec, hhmm)
    IN  IF hit # 0 /\ hhmm # HhmmOfHms(btr.tr_vec[hit].end)
        THEN Ok(AddMinutes(datetime, 1))
        ELSE IF hit = 0 THEN Err("DatetimeNotInRange")
        ELSE LET len == Len(btr.tr_vec)
                 next_idx == hit - 1 + 1
                 sel == QhCloseDate(btr, tdu, hhmm, datetime.date)
             IN  IF next_idx >= len THEN Panic
                 ELSE IF ~sel.ymd.ok THEN sel.ymd
                 ELSE LET next_tr == IF sel.day_open THEN btr.tr_vec[2]
                                     ELSE btr.tr_vec[next_idx + 1]
                      IN  Ok(Dt(sel.ymd.v,
                                MkTime(next_tr.start \div 10000,
                                       (next_tr.start \div 100) % 100, 0)))

\* BreedTxTimeRange::next_minute
BreedNextMinute(btr, tdu, datetime) ==
    LET hhmm == HhmmOfTime(datetime.tod)
        hit == QhFirstRange(btr.tr_vec, hhmm)
    IN  IF hit # 0 /\ hhmm # HhmmOfHms(btr.tr_vec[hit].end)
        THEN Ok(AddMinutes(datetime, 1))
        ELSE IF hit = 0 THEN Err("DatetimeNotInRange")
        ELSE LET len == Len(btr.tr_vec)
                 next_idx == (hit - 1 + 1) % len
                 sel == QhCloseDate(btr, tdu, hhmm, datetime.date)
                 next_tr == IF sel.day_open THEN btr.tr_vec[2]
                            ELSE btr.tr_vec[next_idx + 1]
             IN  IF ~sel.ymd.ok THEN sel.ymd
                 ELSE Ok(Dt(sel.ymd.v,
                            MkTime(next_tr.start \div 10000,
                                   (next_tr.start \div 100) % 100, 0)))

\* BreedTxTimeRange::is_trading_time
BreedIsTradingTime(btr, tod) ==
    \E i \in 1 .. Len(btr.tr_vec_fix) :
        /\ btr.tr_vec_fix[i].start <= HmsOfTime(tod)
        /\ HmsOfTime(tod) <= btr.tr_vec_fix[i].end

\* TxTimeRangeData::is_trading_time
TrdIsTradingTime(trd, breed, tod) ==
    IF ToUppercase(breed) \in DOMAIN trd.breed_ttr_hmap
    THEN BreedIsTradingTime(trd.breed_ttr_hmap[ToUppercase(breed)], tod)
    ELSE FALSE

\* TxTimeRangeData::is_had_night
TrdIsHadNight(trd, breed) ==
    IF ToUppercase(breed) \in DOMAIN trd.breed_ttr_hmap
    THEN trd.breed_ttr_hmap[ToUppercase(breed)].has_night
    ELSE FALSE

\* TxTimeRangeData::next_minute
TrdNextMinute(trd, tdu, breed, datetime) ==
    IF ToUppercase(breed) \in DOMAIN trd.breed_ttr_hmap
    THEN BreedNextMinute(trd.breed_ttr_hmap[ToUppercase(breed)], tdu, datetime)
    ELSE Err("BreedNotExist")

\* is_first_minute without the look at the calendar (a seeded fault)
BreedIsFirstMinuteNoCalendar(btr, tdu, trading_day, tod) ==
    HmsOfTime(tod) = btr.tr_vec[1].start

\* BreedTxTimeRange::is_first_minute
BreedIsFirstMinute(btr, tdu, trading_day, tod) ==
    IF btr.has_night
    THEN IF TduHasNight(tdu, trading_day)
         THEN HmsOfTime(tod) = btr.tr_vec[1].start
         ELSE HmsOfTime(tod) = btr.tr_vec[2].start
    ELSE HmsOfTime(tod) = btr.tr_vec[1].start

\* TxTimeRangeData::is_first_minute
TrdIsFirstMinute(trd, tdu, breed, trading_day, tod) ==
    IF ToUppercase(breed) \in DOMAIN trd.breed_ttr_hmap
    THEN BreedIsFirstMinute(trd.breed_ttr_hmap[ToUppercase(breed)], tdu,
                            trading_day, tod)
    ELSE FALSE

\* ------------------------------------ hq::future::time_range (src/hq)
\* rows of basedata.tbl_time_range: opentimes / closetimes per breed; a breed
\* without night session repeats its first segment in the night slot
HqRangeRows ==
    ("LR" :> [open_times  |-> << MkTime(9, 0, 0), MkTime(9, 0, 0),
                                 MkTime(10, 30, 0), MkTime(13, 30, 0) >>,
              close_times |-> << MkTime(10, 15, 0), MkTime(10, 15, 0),
                                 MkTime(11, 30, 0), MkTime(15, 0, 0) >>]) @@
    ("IC" :> [open_times  |-> << MkTime(9, 30, 0), MkTime(9, 30, 0),
                                 MkTime(13, 0, 0) >>,
              close_times |-> << MkTime(11, 30, 0), MkTime(11, 30, 0),
                                 MkTime(15, 0, 0) >>]) @@
    ("TF" :> [open_times  |-> << MkTime(9, 30, 0), MkTime(9, 30, 0),
                                 MkTime(13, 0, 0) >>,
              close_times |-> << MkTime(11, 30, 0), MkTime(11, 30, 0),
                                 MkTime(15, 15, 0) >>]) @@
    ("SA" :> [open_times  |-> << MkTime(21, 0, 0), MkTime(9, 0, 0),
                                 MkTime(10, 30, 0), MkTime(13, 30, 0) >>,
              close_times |-> << MkTime(23, 0, 0), MkTime(10, 15, 0),
                                 MkTime(11, 30, 0), MkTime(15, 0, 0) >>]) @@
    ("zn" :> [open_times  |-> << MkTime(21, 0, 0), MkTime(9, 0, 0),
                                 MkTime(10, 30, 0), MkTime(13, 30, 0) >>,
              close_times |-> << MkTime(1, 0, 0), MkTime(10, 15, 0),
                                 MkTime(11, 30, 0), MkTime(15, 0, 0) >>]) @@
    ("ag" :> [open_times  |-> << MkTime(21, 0, 0), MkTime(9, 0, 0),
                                 MkTime(10, 30, 0), MkTime(13, 30, 0) >>,
              close_times |-> << MkTime(2, 30, 0), MkTime(10, 15, 0),
                                 MkTime(11, 30, 0), MkTime(15, 0, 0) >>])

RECURSIVE Unique(_)
\* Itertools::unique: first occurrences, in order
Unique(seq) ==
    IF Len(seq) = 0 THEN << >>
    ELSE LET init == Unique(SubSeq(seq, 1, Len(seq) - 1))
             last == seq[Len(seq)]
         IN  IF \E i \in 1 .. Len(init) : init[i] = last THEN init
             ELSE Append(init, last)

\* the CloseTimeInfo built for segment i (0-based) in time_range::init_from_db
CloseTimeInfo(open_times, close_times, has_night, i) ==
    LET time_len == Len(open_times)
        next_idx == (i + 1) % time_len
        time_next == TimeAddMinute(open_times[next_idx + 1])
    IN  [next |-> time_next,
         non_night_next |-> IF has_night /\ i = time_len - 1
                            THEN TimeAddMinute(open_times[2])
                            ELSE time_next,
         is_night_close_2300 |-> has_night /\ i = 0
                                 /\ close_times[i + 1] = MkTime(23, 0, 0),
         is_night_close_other |-> has_night /\ i = 0
                                  /\ close_times[i + 1] # MkTime(23, 0, 0),
         is_day_close |-> i = time_len - 1]

\* the TimeRange value time_range::init_from_db builds from one row
TimeRangeFrom(item) ==
    LET has_night == item.open_times[1] # item.open_times[2]
        open_times == Unique(item.open_times)
        close_times == Unique(item.close_times)
        time_len == Len(open_times)
    IN  [times_vec |-> [ i \in 1 .. time_len |->
                           << open_times[i], close_times[i] >> ],
         has_night |-> has_night,
         night_open_time |-> TimeAddMinute(open_times[1]),
         non_night_open_time |-> TimeAddMinute(
                                   IF has_night THEN open_times[2]
                                   ELSE open_times[1]),
         close_time_info_map |->
             [ t \in { close_times[i] : i \in 1 .. time_len } |->
                 CloseTimeInfo(open_times, close_times, has_night,
                     (CHOOSE k \in 1 .. time_len :
                         /\ close_times[k] = t
                         /\ \A j \in 1 .. time_len :
                               close_times[j] = t => j <= k) - 1) ],
         non_night_first_close_time |->
             close_times[IF has_night THEN 2 ELSE 1]]

\* the map time_range::init_from_db stores in TX_TIME_RANGE_DATA
HqTimeRangeBuild(rows) == [ b \in DOMAIN rows |-> TimeRangeFrom(rows[b]) ]

\* time_range::time_range_by_breed
HqTimeRangeByBreed(lock, breed) ==
    IF ~lock.isSet THEN Panic
    ELSE IF breed \in DOMAIN lock.v THEN Ok(lock.v[breed])
    ELSE Err("BreedError")

\* TimeRange::is_first_minute: a bool, or the panic of trade_day::has_night
TimeRangeIsFirstMinute(tr, tdlock, dt) ==
    IF tr.has_night
    THEN LET n == HqHasNight(tdlock, dt.date)
         IN  IF ~n.ok THEN n
             ELSE IF n.v THEN Ok(dt.tod = tr.night_open_time)
             ELSE Ok(dt.tod = tr.non_night_open_time)
    ELSE Ok(dt.tod = tr.non_night_open_time)

\* -------------------------- hq::future::time_range::minutes (src/hq)
\* NaiveDateTime::default(), 1970-01-01 00:00:00
DefaultDateTime == Dt(-19723, 0)

\* Minutes::new_from_times_vec: the MinuteStrategyInfo stored for a minute.
\* The loop of segment idx covers the minutes after its close up to the close
\* of the next segment, which is the close_time of the entry
MinuteStrategyInfo(times_vec, minute) ==
    LET len == Len(times_vec)
        night_close_time == times_vec[1][2]
        day_close_time == times_vec[len][2]
        time_2300 == MkTime(23, 0, 0)
        time_235959 == MkTime(23, 59, 59)
        is_night_close_2300 == night_close_time = time_2300
        is_night_close_0100_0230 ==
            night_close_time \in { MkTime(1, 0, 0), MkTime(2, 30, 0) }
        idx == CHOOSE i \in 1 .. len :
                 LET close_time == times_vec[i][2]
                     next_close_time == times_vec[(i % len) + 1][2]
                 IN  IF close_time > next_close_time
                     THEN minute > close_time \/ minute <= next_close_time
                     ELSE close_time < minute /\ minute <= next_close_time
        afternoon == minute > day_close_time /\ minute < time_235959
        kind ==
            IF ~is_night_close_2300 /\ ~is_night_close_0100_0230
            THEN IF afternoon THEN "use_next_td_first_close" ELSE "check_day"
            ELSE IF is_night_close_2300
            THEN IF minute > day_close_time /\ minute <= time_2300
                 THEN "check_night_2300"
                 ELSE IF minute > time_2300 /\ minute < time_235959
                 THEN "use_next_td_first_close"
                 ELSE "check_day"
            ELSE IF afternoon THEN "check_night_next_day_0100_0230"
                 ELSE IF minute <= night_close_time
                 THEN "check_prev_night_0100_0230"
                 ELSE "check_day"
    IN  [close_time |-> times_vec[(idx % len) + 1][2],
         is_use_next_td_first_close |-> kind = "use_next_td_first_close",
         is_check_day |-> kind = "check_day",
         is_check_night_2300 |-> kind = "check_night_2300",
         is_check_night_next_day_0100_0230 |->
             kind = "check_night_next_day_0100_0230",
         is_check_prev_night_0100_0230 |->
             kind = "check_prev_night_0100_0230"]

\* Minutes::next_close_time: a datetime, or the panic of trade_day::trade_day
MinutesNextCloseTime(times_vec, tdlock, dt, non_night_first_close) ==
    LET time == MkTime(Hour(dt.tod), Minute(dt.tod), 0)
        stragegy == MinuteStrategyInfo(times_vec, time)
        day == dt.date
        trade_day == HqTradeDay(tdlock, day)
        prev_trade_day == HqTradeDay(tdlock, day - 1)
    IN  IF ~trade_day.ok THEN Panic
        ELSE
        LET next_td_first == Dt(trade_day.v.td_next, non_night_first_close)
        IN  IF stragegy.is_use_next_td_first_close THEN Ok(next_td_first)
            ELSE IF stragegy.is_check_day
            THEN IF trade_day.v.is_trade_day
                 THEN Ok(Dt(day, stragegy.close_time))
                 ELSE Ok(next_td_first)
            ELSE IF stragegy.is_check_night_2300
            THEN IF trade_day.v.has_night
                 THEN Ok(Dt(day, stragegy.close_time))
                 ELSE Ok(next_td_first)
            ELSE IF stragegy.is_check_night_next_day_0100_0230
            THEN IF trade_day.v.has_night
                 THEN Ok(Dt(day + 1, stragegy.close_time))
                 ELSE Ok(next_td_first)
            ELSE IF stragegy.is_check_prev_night_0100_0230
            THEN IF ~prev_trade_day.ok THEN Panic
                 ELSE IF prev_trade_day.v.has_night
                 THEN Ok(Dt(day, stragegy.close_time))
                 ELSE Ok(next_td_first)
            ELSE Ok(DefaultDateTime)

\* TimeRange::next_close_time
TimeRangeNextCloseTime(tr, tdlock, dt) ==
    LET next_close_time ==
            MinutesNextCloseTime(tr.times_vec, tdlock, dt,
                                 tr.non_night_first_close_time)
    IN  IF ~next_close_time.ok THEN next_close_time
        ELSE IF next_close_time.v = DefaultDateTime
        THEN Err("get a default time")
        ELSE next_close_time

\* TimeRange::next_minute: [dt, next_td] or a panic
TimeRangeNextMinute(tr, tdlock, dt) ==
    LET date == dt.date
        td == HqTradeDay(tdlock, date)
    IN  IF ~td.ok THEN Panic
        ELSE IF dt.tod \notin DOMAIN tr.close_time_info_map
        THEN Ok([dt |-> AddMinutes(dt, 1), next_td |-> None])
        ELSE LET td_info == td.v
                 v == tr.close_time_info_map[dt.tod]
                 d == IF v.is_night_close_2300 THEN td_info.td_next
                      ELSE IF v.is_night_close_other
                      THEN IF td_info.is_trade_day THEN date
                           ELSE td_info.td_next
                      ELSE IF v.is_day_close
                      THEN IF tr.has_night /\ td_info.has_night THEN date
                           ELSE td_info.td_next
                      ELSE date
             IN  IF v.is_day_close
                 THEN IF td_info.has_night
                      THEN Ok([dt |-> Dt(d, v.next),
                               next_td |-> Some(td_info.td_next)])
                      ELSE Ok([dt |-> Dt(d, v.non_night_next),
                               next_td |-> Some(td_info.td_next)])
                 ELSE Ok([dt |-> Dt(d, v.next), next_td |-> None])

\* ------------------------------- qh::klinetime::convert_to_1m (src/qh)
\* breeds of hqdb.tbl_future_main_contract after breed_from_symbol
QhBreedRows == << "IC", "TF", "AP", "a", "al", "ag" >>

\* the pre-open key init_for_breed_vec adds for the first range
PreOpenKey(start) ==
    CASE start = 90100 -> Some(859)
      [] start = 93100 -> Some(929)
      [] start = 210100 -> Some(2059)
      [] OTHER -> None

\* the special-minute table of one breed: hhmm -> Hms (hhmmss)
TimeHmap(tr_vec) ==
    LET ends == { HhmmOfHms(tr_vec[i].end) : i \in 1 .. Len(tr_vec) }
        pre == PreOpenKey(tr_vec[1].start)
        byEnd == [ k \in ends |->
                     (CHOOSE i \in 1 .. Len(tr_vec) :
                          /\ HhmmOfHms(tr_vec[i].end) = k
                          /\ \A j \in 1 .. Len(tr_vec) :
                                HhmmOfHms(tr_vec[j].end) = k => j <= i) ]
    IN  [ k \in ends |-> tr_vec[byEnd[k]].end ] @@
        (IF pre.some THEN (pre.v :> tr_vec[1].start) ELSE EmptyMap)

\* ConvertTo1m::default() over the current snapshots
C1mDefault(trd, tdu) == [trd |-> trd, tdu |-> tdu, breed_1mtime_hmap |-> EmptyMap]

\* ConvertTo1m::init_for_breed_vec
C1mInitForBreedVec(c1m, breed_vec) ==
    LET known == { breed_vec[i] : i \in 1 .. Len(breed_vec) }
        loaded == { b \in known :
                      ToUppercase(b) \in DOMAIN c1m.trd.breed_ttr_hmap }
    IN  [c1m EXCEPT !.breed_1mtime_hmap =
            [ b \in loaded |->
                TimeHmap(c1m.trd.breed_ttr_hmap[ToUppercase(b)].tr_vec) ]]

C1mIsEmpty(c1m) == DOMAIN c1m.breed_1mtime_hmap = {}

\* ConvertTo1m::to_1m
To1m(c1m, breed, date, hour, min, sec) ==
    LET hhmmss == hour * 10000 + min * 100 + sec
        hhmm == hour * 100 + min
    IN  IF hhmmss = 0 THEN Ok(Dt(date, 0))
        ELSE IF breed \notin DOMAIN c1m.breed_1mtime_hmap
        THEN Err("BreedNotExist")
        ELSE LET m == c1m.breed_1mtime_hmap[breed]
                 datetime == IF hhmm \in DOMAIN m
                             THEN Dt(date, TimeOfHms(m[hhmm]))
                             ELSE AddMinutes(Dt(date, MkTime(hour, min, 0)), 1)
             IN  IF ~TrdIsTradingTime(c1m.trd, breed, datetime.tod)
                 THEN Err("DatetimeNotInRange")
                 ELSE Ok(datetime)

\* ConvertTo1m::to_1m_with_min_dg_day (the K-line time of the result pair)
To1mWithMinDgDay(c1m, breed, min_dg_day, tod) ==
    LET date == IF Hour(tod) < 3 THEN min_dg_day + 1 ELSE min_dg_day
    IN  To1m(c1m, breed, date, Hour(tod), Minute(tod), Second(tod))

\* ConvertTo1m::to_1m_with_trading_day
To1mWithTradingDay(c1m, breed, trading_day, tod) ==
    LET hhmm == Hour(tod) * 100 + Minute(tod)
        prev == TduPrev(c1m.tdu, trading_day)
    IN  IF hhmm >= 2058
        THEN IF prev.ok
             THEN To1m(c1m, breed, prev.v, Hour(tod), Minute(tod), Second(tod))
             ELSE prev
        ELSE IF hhmm < 300
        THEN IF prev.ok
             THEN To1m(c1m, breed, prev.v + 1, Hour(tod), Minute(tod),
                       Second(tod))
             ELSE prev
        ELSE To1m(c1m, breed, trading_day, Hour(tod), Minute(tod), Second(tod))

\* ----------------------------- hq::future::period_convert::m1 (src/hq)
\* the pre-open entry m1::init_from_time_range adds for the first open time
HqPreOpen(open_time) ==
    CASE HmsOfTime(open_time) = 90000 -> Some(<< 859, MkTime(9, 1, 0) >>)
      [] HmsOfTime(open_time) = 93000 -> Some(<< 929, MkTime(9, 31, 0) >>)
      [] HmsOfTime(open_time) = 210000 -> Some(<< 2059, MkTime(21, 1, 0) >>)
      [] OTHER -> None

\* the Converter1m m1::init_from_time_range builds for one TimeRange
Converter1mFrom(time_range) ==
    LET tv == time_range.times_vec
        closes == { tv[i][2] : i \in 1 .. Len(tv) }
        pre == HqPreOpen(tv[1][1])
    IN  [hhmm_time_map |->
            (IF tv[1][2] < MkTime(3, 0, 0) THEN (0 :> MkTime(0, 0, 0))
             ELSE EmptyMap) @@
            [ k \in { HhmmOfTime(c) : c \in closes } |->
                CHOOSE c \in closes : HhmmOfTime(c) = k ] @@
            (IF pre.some THEN (pre.v[1] :> pre.v[2]) ELSE EmptyMap)]

\* Converter1m::convert
Converter1mConvert(c, dt) ==
    LET hhmm == HhmmOfTime(dt.tod)
    IN  IF hhmm \notin DOMAIN c.hhmm_time_map
        THEN AddMinutes(Dt(dt.date, MkTime(Hour(dt.tod), Minute(dt.tod), 0)), 1)
        ELSE IF hhmm = 0
        THEN IF Second(dt.tod) = 0 THEN Dt(dt.date, MkTime(0, 0, 0))
             ELSE Dt(dt.date, MkTime(0, 1, 0))
        ELSE Dt(dt.date, c.hhmm_time_map[hhmm])

\* --------------------------- qh::klinetime::convert_to_3m5m15m (src/qh)
\* PeriodUtil::pv: the minutes of a period string
Pv(period) ==
    CASE period = "1m" -> Some(1)
      [] period = "3m" -> Some(3)
      [] period = "5m" -> Some(5)
      [] period = "15m" -> Some(15)
      [] period = "30m" -> Some(30)
      [] period = "60m" -> Some(60)
      [] period = "120m" -> Some(120)
      [] OTHER -> None

\* TimeRangeDateTime::new(start, end)
TimeRangeDateTime(start, end) == [start |-> start, end |-> end]

\* time_range with the start offset of a non-close minute off by one (a
\* seeded fault)
TimeRange3m5m15mLongStart(period, time) ==
    LET pv == Pv(period).v
        time_offset == Minute(time.tod) % pv
    IN  TimeRangeDateTime(
            AddMinutes(time, -(IF time_offset = 0 THEN pv - 1 ELSE time_offset)),
            AddMinutes(time, IF time_offset = 0 THEN 0 ELSE pv - time_offset))

\* time_range with the end of a close minute a whole period later (a seeded
\* fault)
TimeRange3m5m15mLateEnd(period, time) ==
    LET pv == Pv(period).v
        time_offset == Minute(time.tod) % pv
    IN  TimeRangeDateTime(
            AddMinutes(time, -(IF time_offset = 0 THEN pv - 1 ELSE time_offset - 1)),
            AddMinutes(time, pv - time_offset))

\* ConvertTo3m5m15m::time_range
TimeRange3m5m15m(period, time) ==
    LET pv == Pv(period).v
        time_offset == Minute(time.tod) % pv
        stime_offset == IF time_offset = 0 THEN pv - 1 ELSE time_offset - 1
        etime_offset == IF time_offset = 0 THEN time_offset ELSE pv - time_offset
    IN  TimeRangeDateTime(AddMinutes(time, -stime_offset),
                          AddMinutes(time, etime_offset))

\* the 1-minute timestamps test_to_xm_sub walks through for one fixed range
FixRangeMinutes(tr, date, next_date, next_td) ==
    { LET time == TimeOfHms(tr.start) + 60 * k
      IN  IF Hour(time) <= 3 THEN Dt(next_date, time)
          ELSE IF Hour(time) < 21 THEN Dt(next_td, time)
          ELSE Dt(date, time) :
        k \in 0 .. ((TimeOfHms(tr.end) - TimeOfHms(tr.start)) \div 60) }

\* test_to_xm_sub: the windows of all 1-minute timestamps of the breed, each
\* with the timestamps that fall into it
XmSub(trd, breed, period, date, next_td) ==
    LET fix == trd.breed_ttr_hmap[ToUppercase(breed)].tr_vec_fix
        all == UNION { FixRangeMinutes(fix[i], date, date + 1, next_td) :
                         i \in 1 .. Len(fix) }
        keys == { TimeRange3m5m15m(period, m) : m \in all }
    IN  { [tr |-> w,
           mins |-> { AddMinutes(w.start, k) : k \in 0 .. (Pv(period).v - 1) }
                        \cap all] : w \in keys }

\* ------------------------- qh::klinetime::convert_to_30m60m120m (src/qh)
\* the periods of ConvertTo30m60m120m
SegmentPeriods == { "30m", "60m", "120m" }

\* the number of 1-minute timestamps of range i of a rangelist
RangeLen(row, i) ==
    ((TimeOfHms(row[2 * i] * 100) - TimeOfHms(row[2 * i - 1] * 100))
        % DaySecs) \div 60 + 1

RECURSIVE RangeLenSum(_, _)
RangeLenSum(row, i) ==
    IF i = 0 THEN 0 ELSE RangeLenSum(row, i - 1) + RangeLen(row, i)

\* the time of day of the n-th 1-minute timestamp of a rangelist, n >= 1
RangeMinuteAt(row, n) ==
    LET i == CHOOSE j \in 1 .. (Len(row) \div 2) :
                 RangeLenSum(row, j - 1) < n /\ n <= RangeLenSum(row, j)
    IN  (TimeOfHms(row[2 * i - 1] * 100)
            + 60 * (n - RangeLenSum(row, i - 1) - 1)) % DaySecs

\* the rangelist of a breed and period in tbl_future_period_time_range: the
\* breed's 1-minute timestamps in runs of pv, the last run the remainder
PeriodRangeList(row, pv) ==
    LET total == RangeLenSum(row, Len(row) \div 2)
        n == (total + pv - 1) \div pv
        last(k) == IF k * pv < total THEN k * pv ELSE total
    IN  [ k \in 1 .. n |->
            TimeRangeHms(HmsOfTime(RangeMinuteAt(row, (k - 1) * pv + 1)),
                         HmsOfTime(RangeMinuteAt(row, last(k)))) ]

\* in_range without the branch for a range running over midnight (a seeded
\* fault)
InRangeNoWrap(tr, hhmmss) == tr.start <= hhmmss /\ hhmmss <= tr.end

\* TimeRangeHms::in_range
InRange(tr, hhmmss) ==
    IF tr.start <= tr.end THEN tr.start <= hhmmss /\ hhmmss <= tr.end
    ELSE (tr.start <= hhmmss /\ hhmmss <= 235959) \/ hhmmss <= tr.end

\* the first range of the list holding the time, 0 if none (Iterator::find)
FindRange(vec, hhmmss) ==
    LET hits == { i \in 1 .. Len(vec) : InRange(vec[i], hhmmss) }
    IN  IF hits = {} THEN 0 ELSE CHOOSE i \in hits : \A j \in hits : i <= j

\* the end date rolled forward on every date, a trading day or not (a seeded
\* fault)
NightEndDateAlwaysNext(tdu, date) == TduNext(tdu, date)

\* time_range, the end date of an input before 03:00 in a window running from
\* the night into the day session
NightEndDate(tdu, date) ==
    IF ~TduIsTd(tdu, date) THEN TduNext(tdu, date) ELSE Ok(date)

\* ConvertTo30m60m120m::time_range
TimeRange30m60m120m(c30, breed, period, datetime) ==
    IF ToUppercase(breed) \notin DOMAIN c30.store_data
    THEN Err("BreedNotExist")
    ELSE IF period \notin DOMAIN c30.store_data[ToUppercase(breed)]
    THEN Err("PeriodNotExist")
    ELSE
    LET vec == c30.store_data[ToUppercase(breed)][period]
        hhmmss == HmsOfTime(datetime.tod)
        found == FindRange(vec, hhmmss)
    IN  IF found = 0 THEN Err("DatetimeNotInRange")
        ELSE
        LET shhmmss == vec[found].start
            ehhmmss == vec[found].end
            date == datetime.date
            stime == TimeOfHms(shhmmss)
            etime == TimeOfHms(ehhmmss)
            range(sdate, edate) ==
                Ok(TimeRangeDateTime(Dt(sdate, stime), Dt(edate, etime)))
        IN  IF shhmmss > ehhmmss
            THEN IF shhmmss <= hhmmss /\ hhmmss < 235959
                 THEN range(date, date + 1)
                 ELSE IF hhmmss <= ehhmmss
                 THEN range(date - 1, date)
                 ELSE range(date, date)
            ELSE IF (ehhmmss \div 10000) - (shhmmss \div 10000) >= 7
            THEN IF hhmmss < 30000
                 THEN LET edate == NightEndDate(c30.tdu, date)
                      IN  IF edate.ok THEN range(date, edate.v) ELSE edate
                 ELSE IF Hour(datetime.tod) > 8
                 THEN LET prev_td == TduPrev(c30.tdu, date)
                      IN  IF prev_td.ok THEN range(prev_td.v + 1, date)
                          ELSE prev_td
                 ELSE range(date, date)
            ELSE range(date, date)

\* test_to_xm_sub of convert_to_30m60m120m: the windows of all 1-minute
\* timestamps of the breed, each with the timestamps that fall into it; a
\* timestamp without a window panics the unwrap
XmSub30m60m120m(trd, c30, breed, period, date, next_td) ==
    LET fix == trd.breed_ttr_hmap[ToUppercase(breed)].tr_vec_fix
        all == UNION { FixRangeMinutes(fix[i], date, date + 1, next_td) :
                         i \in 1 .. Len(fix) }
        key == [ m \in all |-> TimeRange30m60m120m(c30, breed, period, m) ]
    IN  IF \E m \in all : ~key[m].ok THEN Panic
        ELSE Ok({ [tr |-> w, mins |-> { m \in all : key[m].v = w }] :
                    w \in { key[m].v : m \in all } })

\* --------------------------------- qh::klinetime::convert_to_1d (src/qh)
\* time_range without the branch for the day session of a breed with a night
\* session (a seeded fault)
TimeRange1dNoDayBranch(trd, tdu, breed, datetime) ==
    IF ToUppercase(breed) \notin DOMAIN trd.breed_ttr_hmap
    THEN Err("BreedNotExist")
    ELSE
    LET tx_time_range_vec == trd.breed_ttr_hmap[ToUppercase(breed)].tr_vec
        stime == TimeOfHms(tx_time_range_vec[1].start)
        shhmmss == tx_time_range_vec[1].start
        last_end == tx_time_range_vec[Len(tx_time_range_vec)].end
        etime == TimeOfHms(last_end)
        date == datetime.date
        hhmmss == HmsOfTime(datetime.tod)
        next_td == TduNext(tdu, date)
        prev_td == TduPrev(tdu, date)
        range(sdate, edate) ==
            Ok(TimeRangeDateTime(Dt(sdate, stime), Dt(edate, etime)))
    IN  IF shhmmss # 210100 THEN range(date, date)
        ELSE IF 210100 <= hhmmss /\ hhmmss <= 235959
            THEN IF next_td.ok THEN range(date, next_td.v) ELSE next_td
            ELSE IF hhmmss <= 23000
            THEN IF ~prev_td.ok THEN prev_td
                 ELSE IF ~TduIsTd(tdu, date)
                 THEN IF next_td.ok THEN range(prev_td.v, next_td.v)
                      ELSE next_td
                 ELSE range(prev_td.v, date)
            ELSE range(date, date)

\* ConvertTo1d::time_range
TimeRange1d(trd, tdu, breed, datetime) ==
    IF ToUppercase(breed) \notin DOMAIN trd.breed_ttr_hmap
    THEN Err("BreedNotExist")
    ELSE
    LET tx_time_range_vec == trd.breed_ttr_hmap[ToUppercase(breed)].tr_vec
        stime == TimeOfHms(tx_time_range_vec[1].start)
        shhmmss == tx_time_range_vec[1].start
        last_end == tx_time_range_vec[Len(tx_time_range_vec)].end
        etime == TimeOfHms(last_end)
        date == datetime.date
        hhmmss == HmsOfTime(datetime.tod)
        next_td == TduNext(tdu, date)
        prev_td == TduPrev(tdu, date)
        range(sdate, edate) ==
            Ok(TimeRangeDateTime(Dt(sdate, stime), Dt(edate, etime)))
    IN  IF shhmmss # 210100 THEN range(date, date)
        ELSE IF 210100 <= hhmmss /\ hhmmss <= 235959
            THEN IF next_td.ok THEN range(date, next_td.v) ELSE next_td
            ELSE IF hhmmss <= 23000
            THEN IF ~prev_td.ok THEN prev_td
                 ELSE IF ~TduIsTd(tdu, date)
                 THEN IF next_td.ok THEN range(prev_td.v, next_td.v)
                      ELSE next_td
                 ELSE range(prev_td.v, date)
            ELSE IF 90100 <= hhmmss /\ hhmmss <= last_end
            THEN IF prev_td.ok THEN range(prev_td.v, date) ELSE prev_td
            ELSE range(date, date)

\* test_to_1d_sub: the windows of all 1-minute timestamps of the breed, the
\* night session on date and the day after it, the day session on next_td
To1dSub(trd, tdu, breed, date, next_td) ==
    LET fix == trd.breed_ttr_hmap[ToUppercase(breed)].tr_vec_fix
        all == UNION { FixRangeMinutes(fix[i], date, date + 1, next_td) :
                         i \in 1 .. Len(fix) }
    IN  { TimeRange1d(trd, tdu, breed, m) : m \in all }

\* --------------------------------- qh::klinetime::convert_to_1w (src/qh)
\* the end date without the Friday evening cutover (a seeded fault)
EndDate1wNoCutover(date, hhmmss) ==
    LET number_from_monday == Weekday(date) + 1
    IN  IF number_from_monday >= 6 THEN date + (12 - number_from_monday)
        ELSE date + (5 - number_from_monday)

\* ConvertTo1W::time_range, the end date before the calendar is looked at
EndDate1w(date, hhmmss) ==
    LET number_from_monday == Weekday(date) + 1
    IN  IF number_from_monday = 5 /\ hhmmss > 210000 THEN date + 7
        ELSE IF number_from_monday >= 6 THEN date + (12 - number_from_monday)
        ELSE date + (5 - number_from_monday)

\* the start date of a breed without a night session for every breed (a
\* seeded fault)
StartDate1wNoNight(trd, breed, end_date) == end_date - 4

\* ConvertTo1W::time_range, the start date
StartDate1w(trd, breed, end_date) ==
    IF TrdIsHadNight(trd, breed) THEN end_date - 7 ELSE end_date - 4

\* ConvertTo1W::time_range
TimeRange1w(trd, tdu, breed, datetime) ==
    LET hhmmss == HmsOfTime(datetime.tod)
        nominal == EndDate1w(datetime.date, hhmmss)
        start_date == StartDate1w(trd, breed, nominal)
        prev_td == TduPrev(tdu, nominal)
        end_date == IF ~TduIsTd(tdu, nominal) THEN prev_td ELSE Ok(nominal)
    IN  IF ~end_date.ok THEN end_date
        ELSE IF end_date.v < start_date THEN Err("WeekNotHadTxDay")
        ELSE IF ToUppercase(breed) \notin DOMAIN trd.breed_ttr_hmap
        THEN Err("BreedNotExist")
        ELSE
        LET trh_vec == trd.breed_ttr_hmap[ToUppercase(breed)].tr_vec
            start_time == TimeOfHms(trh_vec[1].start)
            end_time == TimeOfHms(trh_vec[Len(trh_vec)].end)
        IN  IF \/ start_date > end_date.v
               \/ (start_date = end_date.v /\ start_time > end_time)
            THEN Err("WeekNotHadTxDay")
            ELSE Ok(TimeRangeDateTime(Dt(start_date, start_time),
                                      Dt(end_date.v, end_time)))

\* ------------------------------ qh::klinetime::convert_to_1month (src/qh)
\* the dates of the model are days counted from Monday 2024-01-01; the first
\* days of the months from 2024-01 to 2025-02
MonthStart ==
    << 0, 31, 60, 91, 121, 152, 182, 213, 244, 274, 305, 335, 366, 397 >>

\* the months counted from 2024-01 as 1
MonthIndex(date) ==
    CHOOSE i \in 1 .. (Len(MonthStart) - 1) :
        MonthStart[i] <= date /\ date < MonthStart[i + 1]

\* Datelike::year, Datelike::month
YearOf(date) == 2024 + (MonthIndex(date) - 1) \div 12
MonthOf(date) == ((MonthIndex(date) - 1) % 12) + 1

\* NaiveDate::from_ymd
FromYmd(year, month, day) ==
    MonthStart[(year - 2024) * 12 + month] + day - 1

\* a month of 30 days whatever the month (a seeded fault)
DaysInMonth30(year, month) == 30

\* days_in_month
DaysInMonth(year, month) ==
    (IF month = 12 THEN FromYmd(year + 1, 1, 1)
     ELSE FromYmd(year, month + 1, 1)) - FromYmd(year, month, 1)

\* ConvertTo1Month::time_range, the end date of a month: its last day, or the
\* trading day before it
EndDate1month(tdu, year, month) ==
    LET edate == FromYmd(year, month, DaysInMonth(year, month))
    IN  IF ~TduIsTd(tdu, edate) THEN TduPrev(tdu, edate) ELSE Ok(edate)

\* ConvertTo1Month::time_range
TimeRange1month(trd, tdu, breed, datetime) ==
    IF ToUppercase(breed) \notin DOMAIN trd.breed_ttr_hmap
    THEN Err("BreedNotExist")
    ELSE
    LET date == datetime.date
        year == YearOf(date)
        month == MonthOf(date)
        trh_vec == trd.breed_ttr_hmap[ToUppercase(breed)].tr_vec
        start_time == TimeOfHms(trh_vec[1].start)
        end_time == TimeOfHms(trh_vec[Len(trh_vec)].end)
        edate == EndDate1month(tdu, year, month)
    IN  IF ~edate.ok THEN edate
        ELSE IF ~TrdIsHadNight(trd, breed)
        THEN Ok(TimeRangeDateTime(Dt(FromYmd(year, month, 1), start_time),
                                  Dt(edate.v, end_time)))
        ELSE
        LET later == \/ date > edate.v
                     \/ (date = edate.v /\ datetime.tod > end_time)
            year2 == IF later /\ month = 12 THEN year + 1 ELSE year
            month2 == IF ~later THEN month
                      ELSE IF month = 12 THEN 1 ELSE month + 1
            edate2 == IF later THEN EndDate1month(tdu, year2, month2)
                      ELSE edate
            sdate == TduPrev(tdu, FromYmd(year2, month2, 1))
        IN  IF ~edate2.ok THEN edate2
            ELSE IF ~sdate.ok THEN sdate
            ELSE Ok(TimeRangeDateTime(Dt(sdate.v, start_time),
                                      Dt(edate2.v, end_time)))

\* --------------------------------------------------------- period routers
\* time_range_xm with an arm for "1m" (a seeded fault)
TimeRangeXmRouteWith1m(period) ==
    CASE period = "1m" -> Ok("ConvertTo1m")
      [] period \in { "3m", "5m", "15m" } -> Ok("ConvertTo3m5m15m")
      [] period \in { "30m", "60m", "120m" } -> Ok("ConvertTo30m60m120m")
      [] period = "1d" -> Ok("ConvertTo1d")
      [] period = "1w" -> Ok("ConvertTo1W")
      [] period \in { "1mth", "1month" } -> Ok("ConvertTo1Month")
      [] OTHER -> Err("PeriodNotSupport")

\* ConvertToXm::time_range_xm: the bucketer the match arm dispatches to
TimeRangeXmRoute(period) ==
    CASE period \in { "3m", "5m", "15m" } -> Ok("ConvertTo3m5m15m")
      [] period \in { "30m", "60m", "120m" } -> Ok("ConvertTo30m60m120m")
      [] period = "1d" -> Ok("ConvertTo1d")
      [] period = "1w" -> Ok("ConvertTo1W")
      [] period \in { "1mth", "1month" } -> Ok("ConvertTo1Month")
      [] OTHER -> Err("PeriodNotSupport")

\* ConvertToXm::time_range_xm
TimeRangeXm(c30, trd, tdu, breed, period, datetime) ==
    CASE period \in { "3m", "5m", "15m" } ->
            Ok(TimeRange3m5m15m(period, datetime))
      [] period \in { "30m", "60m", "120m" } ->
            TimeRange30m60m120m(c30, breed, period, datetime)
      [] period = "1d" -> TimeRange1d(trd, tdu, breed, datetime)
      [] period = "1w" -> TimeRange1w(trd, tdu, breed, datetime)
      [] period \in { "1mth", "1month" } ->
            TimeRange1month(trd, tdu, breed, datetime)
      [] OTHER -> Err("PeriodNotSupport")

\* the periods xm::init_from_time_range tabulates for every breed
HqXmPeriods == { "5m", "15m", "30m", "60m", "120m" }

\* ConverterXm::convert: the lookup of the period table
ConverterXmRoute(period) ==
    IF period \in HqXmPeriods THEN Ok(period) ELSE Err("PeriodError")

\* --------------------- hq::future::period_convert::xm, the period tables
\* the 1-minute timestamps init_from_time_range walks through in session i:
\* open + 1 minute up to the close, which is on the next date if it is before
\* the open
HqSessionLen(times_vec, i) ==
    ((times_vec[i][2] - times_vec[i][1]) % DaySecs) \div 60

RECURSIVE HqSessionLenSum(_, _)
HqSessionLenSum(times_vec, i) ==
    IF i = 0 THEN 0
    ELSE HqSessionLenSum(times_vec, i - 1) + HqSessionLen(times_vec, i)

\* the timestamp at which idx becomes n
HqMinuteAt(times_vec, n) ==
    LET i == CHOOSE j \in 1 .. Len(times_vec) :
                 /\ HqSessionLenSum(times_vec, j - 1) < n
                 /\ n <= HqSessionLenSum(times_vec, j)
    IN  (times_vec[i][1] + 60 * (n - HqSessionLenSum(times_vec, i - 1)))
            % DaySecs

\* PeriodTimeInfo with every full window closed one timestamp early (a seeded
\* fault)
PeriodTimeInfoEarlyClose(times_vec, pv, n) ==
    LET total == HqSessionLenSum(times_vec, Len(times_vec))
        k == (n - 1) \div pv
        s_time == HqMinuteAt(times_vec, k * pv + 1)
        e_time == HqMinuteAt(times_vec,
                             IF (k + 1) * pv < total THEN (k + 1) * pv - 1
                             ELSE total)
    IN  [s_time |-> s_time,
         e_time |-> e_time,
         day_add_1 |-> FALSE,
         use_trade_date |-> FALSE]

\* the PeriodTimeInfo stored for the timestamp at idx n: its window began when
\* period_s_dt was last empty and ends where idx % pv = 0 or at the last close
PeriodTimeInfo(times_vec, pv, n) ==
    LET total == HqSessionLenSum(times_vec, Len(times_vec))
        k == (n - 1) \div pv
        s_time == HqMinuteAt(times_vec, k * pv + 1)
        e_time == HqMinuteAt(times_vec,
                             IF (k + 1) * pv < total THEN (k + 1) * pv
                             ELSE total)
        night_diff_day == s_time > MkTime(20, 59, 0) /\ e_time < MkTime(3, 0, 0)
        time == HqMinuteAt(times_vec, n)
    IN  [s_time |-> s_time,
         e_time |-> e_time,
         day_add_1 |-> /\ night_diff_day
                       /\ time >= MkTime(20, 59, 0)
                       /\ time <= MkTime(23, 59, 59),
         use_trade_date |-> /\ ~night_diff_day
                            /\ s_time < MkTime(3, 0, 0)
                            /\ e_time > MkTime(8, 59, 0)]

\* the idx at which the timestamp of time t is inserted last, 0 if never
HqIdxOf(times_vec, t) ==
    LET past(i) == (t - times_vec[i][1]) % DaySecs
        in == { i \in 1 .. Len(times_vec) :
                  /\ past(i) % 60 = 0
                  /\ past(i) >= 60
                  /\ past(i) <= 60 * HqSessionLen(times_vec, i) }
    IN  IF in = {} THEN 0
        ELSE LET i == CHOOSE j \in in : \A l \in in : l <= j
             IN  HqSessionLenSum(times_vec, i - 1) + past(i) \div 60

\* time_ptime_map of one breed and period: a later insert of the same time
\* replaces an earlier one
TimePtimeMap(times_vec, pv) ==
    LET total == HqSessionLenSum(times_vec, Len(times_vec))
    IN  [ t \in { HqMinuteAt(times_vec, n) : n \in 1 .. total } |->
            PeriodTimeInfo(times_vec, pv, HqIdxOf(times_vec, t)) ]

\* ConverterXm::convert on the time_ptime_map of the period
ConverterXmConvert(time_period_info_map, dt, trade_date) ==
    IF dt.tod \notin DOMAIN time_period_info_map THEN Err("TimeError")
    ELSE LET period_time_info == time_period_info_map[dt.tod]
             e_time == period_time_info.e_time
         IN  Ok(IF period_time_info.day_add_1 THEN Dt(dt.date + 1, e_time)
                ELSE IF period_time_info.use_trade_date
                THEN Dt(trade_date, e_time)
                ELSE Dt(dt.date, e_time))

\* xm::by_breed(breed) and the period lookup of convert: the time_ptime_map
\* of the period, built from the sessions TX_TIME_RANGE_DATA held when
\* init_from_time_range ran
XmByBreed(xmlock, trlock, breed, period) ==
    IF ~xmlock.isSet THEN Panic
    ELSE IF breed \notin DOMAIN xmlock.v THEN Err("BreedError")
    ELSE IF period \notin xmlock.v[breed] THEN Err("PeriodError")
    ELSE Ok(TimePtimeMap(trlock.v[breed].times_vec, Pv(period).v))

\* ------------------------------------------------------------ the state
VARIABLES
    dbDays,   \* trading days held by the calendar tables of the store
    qh,       \* the process-wide singletons of src/qh
    hq,       \* the process-wide OnceLocks of src/hq/future
    stack,    \* per task: the call stack of initializer frames [fn, pc]
    status,   \* per task: "ready" or "panicked"
    cur,      \* per task: the top-level call in progress / last made:
              \* entry, the entries seen returned Ok when it began, whether
              \* it read the store, how many calls the task made, its result,
              \* the table it builds or the snapshot it holds, its answer
    loads,    \* how many times each table was read from the store
    done,     \* the top-level initializers that have returned Ok
    q         \* the last query and its result

vars == << dbDays, qh, hq, stack, status, cur, loads, done, q >>

Tasks == 1 .. NTasks

\* rows of hqdb.tbl_future_period_time_range (breed, period, rangelist)
QhPeriodRows ==
    [ b \in DOMAIN QhRangeRows |->
        [ p \in SegmentPeriods |-> PeriodRangeList(QhRangeRows[b], Pv(p).v) ] ]

\* ConvertTo30m60m120m::default()
C30Default(tdu) == [tdu |-> tdu, store_data |-> EmptyMap]

\* the statics of src/qh before any initializer ran
QhStatics ==
    [BREED_INFO_VEC |-> << >>,
     TRADING_DAY_UTIL |-> TduDefault,
     TX_TIME_RANGE_DATA |-> TrdDefault,
     CONVERT_1M |-> C1mDefault(TrdDefault, TduDefault),
     CONVERT_30M60M120M |-> C30Default(TduDefault),
     CONVERT_1D |-> LockUnset,
     CONVERT_1W |-> LockUnset,
     CONVERT_1MTH |-> LockUnset,
     CONVERT_XM |-> LockUnset]

\* the statics of src/hq/future before any initializer ran
HqStatics ==
    [TRADE_DAY_HMAP |-> LockUnset,
     TX_TIME_RANGE_DATA |-> LockUnset,
     BREED_CONVERTER1M_HAMP |-> LockUnset,
     BREED_CONVERTERXM_HMAP |-> LockUnset,
     BREED_CLOSE_TIME_MAP |-> LockUnset,
     BREED_CONVERTER1D_MAP |-> LockUnset,
     BREED_CONVERTER_MAP |-> LockUnset]

\* what each initializer publishes
TduLoaded(days) == TduInitFromDb(SortedSeq(days)).v
TrdLoaded == TrdInitFromDb(QhRangeRows)
C1mLoaded(trd, tdu) == C1mInitForBreedVec(C1mDefault(trd, tdu), QhBreedRows)
C30Loaded(tdu) == [tdu |-> tdu, store_data |-> QhPeriodRows]
HqTradeDayLoaded(days) == HqTradeDayBuild(HqCalendarRows(days))
HqTimeRangeLoaded == HqTimeRangeBuild(HqRangeRows)
HqConverter1mLoaded(trmap) == [ b \in DOMAIN trmap |-> Converter1mFrom(trmap[b]) ]
HqConverterXmLoaded(trmap) == [ b \in DOMAIN trmap |-> HqXmPeriods ]
HqConverter1dLoaded(trmap) ==
    [ b \in DOMAIN trmap |->
        [close_time |-> trmap[b].times_vec[Len(trmap[b].times_vec)][2]] ]

\* the tables of the store the initializers read
LoadTables == { "BreedInfoVec", "TradingDayUtil", "TxTimeRangeData",
                "ConvertTo30m60m120m", "trade_day", "time_range" }

NoQuery == [op |-> "none", breed |-> "", day |-> 0, tod |-> 0,
            period |-> "", res |-> Ok(0)]

\* no call made yet
NoCall == [entry |-> "none", seen |-> {}, loaded |-> FALSE, n |-> 0,
           ret |-> "none", held |-> TduDefault, ans |-> Err("none")]

TasksIdle ==
    /\ stack = [t \in Tasks |-> << >>]
    /\ status = [t \in Tasks |-> "ready"]
    /\ cur = [t \in Tasks |-> NoCall]

\* ------------------------------------------------------- query inputs
QueryDays == -1 .. (MaxDay + 1)

MinuteSamples ==
    { MkTime(0, 0, 0), MkTime(1, 0, 0), MkTime(2, 30, 0), MkTime(8, 59, 0),
      MkTime(9, 0, 0), MkTime(9, 30, 0), MkTime(10, 15, 0), MkTime(11, 30, 0),
      MkTime(12, 0, 0), MkTime(14, 59, 0), MkTime(15, 0, 0), MkTime(15, 15, 0),
      MkTime(20, 59, 0), MkTime(21, 0, 0), MkTime(22, 0, 0), MkTime(23, 0, 0),
      MkTime(23, 59, 0) }

TickSamples ==
    { MkTime(0, 0, 0), MkTime(0, 0, 30), MkTime(2, 29, 30), MkTime(2, 30, 0),
      MkTime(2, 30, 30), MkTime(8, 58, 30), MkTime(8, 59, 30),
      MkTime(9, 0, 30), MkTime(9, 29, 30), MkTime(10, 14, 30),
      MkTime(10, 15, 0), MkTime(10, 15, 30), MkTime(11, 30, 0),
      MkTime(12, 0, 30), MkTime(14, 59, 30), MkTime(15, 0, 0),
      MkTime(15, 0, 30), MkTime(15, 14, 30), MkTime(20, 58, 30),
      MkTime(20, 59, 30), MkTime(21, 0, 30), MkTime(22, 59, 30),
      MkTime(23, 0, 0), MkTime(23, 59, 30) }

\* the days the calendar-free 1m entry points are asked about
TickDays == { 0, 4, MaxDay }

\* the periods of ConvertTo3m5m15m
IntradayPeriods == { "3m", "5m", "15m" }

\* 1m-aligned times of day: every minute of three hours, midnight included
AlignedSamples == { MkTime(h, m, 0) : h \in { 0, 9, 23 }, m \in 0 .. 59 }

\* 1m-aligned times of day around the joins of the 30m/60m/120m windows
SegmentSamples ==
    { MkTime(0, 0, 0), MkTime(1, 30, 0), MkTime(2, 15, 0), MkTime(2, 30, 0),
      MkTime(9, 1, 0), MkTime(9, 30, 0), MkTime(9, 31, 0), MkTime(12, 0, 0),
      MkTime(15, 0, 0), MkTime(21, 1, 0), MkTime(23, 30, 0) }

\* a Friday, the weekend after it and the Monday
SegmentDays == { 4, 5, 6, 7 }

SegmentBreedInputs == { "ag", "a", "IC", "ZZ" }
HqXmWindowPeriods == { "30m", "60m", "120m", "3m" }
HqXmWindowBreeds == { "IC", "zn", "ag", "ZZ" }
SegmentPeriodInputs == { "30m", "60m", "120m", "5m" }

\* further ticks inside the sessions, on and next to the 60m window ends
SegmentTicks ==
    TickSamples \cup
    { MkTime(21, 0, 0), MkTime(21, 59, 30), MkTime(22, 0, 0),
      MkTime(1, 59, 30), MkTime(2, 0, 30), MkTime(9, 30, 0),
      MkTime(10, 0, 0), MkTime(10, 30, 30), MkTime(13, 30, 30) }

\* times of day on both sides of the Friday evening cutover of the week
\* the dates of two weeks, from a Friday to the Sunday nine days later
LongWeekDays == 4 .. 13

WeekSamples ==
    { MkTime(0, 0, 0), MkTime(9, 30, 0), MkTime(20, 59, 0), MkTime(21, 0, 0),
      MkTime(21, 0, 1), MkTime(21, 5, 0) }

\* the dates around the ends of the first two months
MonthDays == (24 .. 33) \cup (56 .. 60)

\* times of day before, at and after the last close and in the night session
MonthSamples ==
    { MkTime(0, 30, 0), MkTime(9, 31, 0), MkTime(15, 0, 0), MkTime(15, 1, 0),
      MkTime(21, 30, 0) }

\* the periods of the 1m bucketer and of time_range_xm
BucketPeriods ==
    { "1m", "3m", "5m", "15m", "30m", "60m", "120m", "1d", "1w", "1month" }

\* a Friday, the Monday after it and the last day of January
BucketDays == { 4, 7, 30 }

\* minutes of the night, morning and afternoon sessions, their first minutes
\* and their closes
BucketSamples ==
    { MkTime(21, 1, 0), MkTime(21, 30, 0), MkTime(23, 59, 0),
      MkTime(0, 0, 0), MkTime(2, 30, 0), MkTime(9, 1, 0), MkTime(9, 2, 0),
      MkTime(9, 31, 0), MkTime(10, 15, 0), MkTime(11, 30, 0),
      MkTime(13, 31, 0), MkTime(14, 59, 0), MkTime(15, 0, 0) }

\* the periods whose window holds the timestamp it is asked for
WindowPeriods == { "30m", "60m", "120m", "1d", "1w", "1month" }

\* the days around the first weekend and around the end of January
WindowDays == { 3, 4, 5, 7, 8, 29, 30, 31, 32 }

\* the samples of the sessions and the minutes around 01:00 and 02:00, where
\* the night session of some breeds closes and a window runs into the morning
WindowSamples ==
    BucketSamples \cup { MkTime(1, 0, 0), MkTime(1, 1, 0), MkTime(2, 1, 0) }

\* times of day around the first minutes of the sessions
FirstMinuteSamples ==
    { MkTime(0, 0, 0), MkTime(9, 0, 0), MkTime(9, 1, 0), MkTime(9, 1, 1),
      MkTime(9, 2, 0), MkTime(9, 30, 0), MkTime(9, 31, 0), MkTime(9, 32, 0),
      MkTime(13, 1, 0), MkTime(13, 31, 0), MkTime(21, 0, 0),
      MkTime(21, 1, 0), MkTime(21, 1, 30), MkTime(21, 2, 0) }

\* times of day before, inside, between and after the sessions
CloseSamples ==
    { MkTime(0, 0, 0), MkTime(0, 30, 0), MkTime(1, 0, 0), MkTime(1, 1, 0),
      MkTime(2, 30, 30), MkTime(3, 0, 0), MkTime(9, 1, 0), MkTime(10, 15, 0),
      MkTime(10, 16, 0), MkTime(13, 31, 0), MkTime(15, 0, 59),
      MkTime(15, 31, 0), MkTime(21, 1, 0), MkTime(23, 0, 0),
      MkTime(23, 1, 0), MkTime(23, 59, 0) }

QhBreedInputs == { "IC", "TF", "AP", "A", "AL", "ag", "ZZ" }
C1mBreedInputs == { "IC", "TF", "AP", "a", "al", "ag", "ZZ" }
HqBreedInputs == { "LR", "IC", "TF", "SA", "zn", "ag", "ZZ" }
PeriodInputs == { "1m", "3m", "5m", "15m", "30m", "60m", "120m", "1d", "1w",
                  "1mth", "1month", "2m", "" }

\* ----------------------------------------------------------- queries
Ask(op, breed, day, tod, period, res) ==
    /\ q' = [op |-> op, breed |-> breed, day |-> day, tod |-> tod,
             period |-> period, res |-> res]
    /\ UNCHANGED << dbDays, qh, hq, stack, status, cur, loads, done >>

\* TradingDayUtil::current().next(day)
QTduNext ==
    /\ q = NoQuery
    /\ \E d \in QueryDays :
        Ask("tdu_next", "", d, 0, "", TduNext(qh.TRADING_DAY_UTIL, d))

\* TradingDayUtil::current().prev(day)
QTduPrev ==
    /\ q = NoQuery
    /\ \E d \in QueryDays :
        Ask("tdu_prev", "", d, 0, "", TduPrev(qh.TRADING_DAY_UTIL, d))

\* tdu.next(tdu.prev(day)?) as a caller chains them
QTduNextOfPrev ==
    /\ q = NoQuery
    /\ \E d \in QueryDays :
        LET p == TduPrev(qh.TRADING_DAY_UTIL, d)
        IN  Ask("tdu_next_of_prev", "", d, 0, "",
                IF p.ok THEN TduNext(qh.TRADING_DAY_UTIL, p.v) ELSE p)

\* tdu.prev(tdu.next(day)?)
QTduPrevOfNext ==
    /\ q = NoQuery
    /\ \E d \in QueryDays :
        LET n == TduNext(qh.TRADING_DAY_UTIL, d)
        IN  Ask("tdu_prev_of_next", "", d, 0, "",
                IF n.ok THEN TduPrev(qh.TRADING_DAY_UTIL, n.v) ELSE n)

\* test_trading_day_util_init: next(day) beside next_slow(day)
QTduNextBoth ==
    /\ q = NoQuery
    /\ \E d \in QueryDays :
        Ask("tdu_next_both", "", d, 0, "",
            [fast |-> TduNext(qh.TRADING_DAY_UTIL, d),
             slow |-> TduNextSlow(qh.TRADING_DAY_UTIL, d)])

\* test_trading_day_prev: prev(day) beside prev_slow(day)
QTduPrevBoth ==
    /\ q = NoQuery
    /\ \E d \in QueryDays :
        Ask("tdu_prev_both", "", d, 0, "",
            [fast |-> TduPrev(qh.TRADING_DAY_UTIL, d),
             slow |-> TduPrevSlow(qh.TRADING_DAY_UTIL, d)])

\* trade_day::next_trade_day(day)
QHqNextTradeDay ==
    /\ q = NoQuery
    /\ \E d \in QueryDays :
        Ask("hq_next_trade_day", "", d, 0, "",
            HqNextTradeDay(hq.TRADE_DAY_HMAP, d))

\* TxTimeRangeData::current().next_minute(breed, datetime)
QQhNextMinute ==
    /\ q = NoQuery
    /\ \E b \in QhBreedInputs, d \in QueryDays, t \in MinuteSamples :
        Ask("qh_next_minute", b, d, t, "",
            TrdNextMinute(qh.TX_TIME_RANGE_DATA, qh.TRADING_DAY_UTIL, b,
                          Dt(d, t)))

\* time_range_by_breed(breed)?.next_minute(dt)
QHqNextMinute ==
    /\ q = NoQuery
    /\ \E b \in HqBreedInputs, d \in QueryDays, t \in MinuteSamples :
        LET tr == HqTimeRangeByBreed(hq.TX_TIME_RANGE_DATA, b)
        IN  Ask("hq_next_minute", b, d, t, "",
                IF tr.ok THEN TimeRangeNextMinute(tr.v, hq.TRADE_DAY_HMAP,
                                                  Dt(d, t))
                ELSE tr)

\* ConvertTo1m::current().to_1m_with_min_dg_day(breed, min_dg_day, time)
QTo1mWithMinDgDay ==
    /\ q = NoQuery
    /\ \E b \in C1mBreedInputs, d \in TickDays, t \in TickSamples :
        Ask("to_1m_min_dg_day", b, d, t, "",
            To1mWithMinDgDay(qh.CONVERT_1M, b, d, t))

\* ConvertTo1m::current().to_1m_with_trading_day(breed, trading_day, time)
QTo1mWithTradingDay ==
    /\ q = NoQuery
    /\ \E b \in C1mBreedInputs, d \in Days, t \in TickSamples :
        Ask("to_1m_trading_day", b, d, t, "",
            To1mWithTradingDay(qh.CONVERT_1M, b, d, t))

\* m1::by_breed(breed)?.convert(dt)
QHqTo1m ==
    /\ q = NoQuery
    /\ \E b \in HqBreedInputs, d \in TickDays, t \in TickSamples :
        Ask("hq_to_1m", b, d, t, "",
            IF ~hq.BREED_CONVERTER1M_HAMP.isSet THEN Panic
            ELSE IF b \notin DOMAIN hq.BREED_CONVERTER1M_HAMP.v
            THEN Err("BreedError")
            ELSE Ok(Converter1mConvert(hq.BREED_CONVERTER1M_HAMP.v[b],
                                       Dt(d, t))))

\* ConvertToXm::time_range_xm(breed, period, datetime)
QTimeRangeXm ==
    /\ q = NoQuery
    /\ \E p \in PeriodInputs :
        Ask("time_range_xm", "", 0, 0, p, TimeRangeXmRoute(p))

\* ConverterXm::convert(period, dt, trade_date)
QConverterXm ==
    /\ q = NoQuery
    /\ \E p \in PeriodInputs :
        Ask("converter_xm", "", 0, 0, p, ConverterXmRoute(p))

\* TxTimeRangeData::current().is_trading_time(breed, time): a plain bool
QTrdIsTradingTime ==
    /\ q = NoQuery
    /\ \E b \in QhBreedInputs, t \in MinuteSamples :
        Ask("trd_is_trading_time", b, 0, t, "",
            Ok(TrdIsTradingTime(qh.TX_TIME_RANGE_DATA, b, t)))

\* TxTimeRangeData::current().is_had_night(breed): a plain bool
QTrdIsHadNight ==
    /\ q = NoQuery
    /\ \E b \in QhBreedInputs :
        Ask("trd_is_had_night", b, 0, 0, "",
            Ok(TrdIsHadNight(qh.TX_TIME_RANGE_DATA, b)))

\* one operation asked with the breed as given, upper-cased and lower-cased
QTo1mCases ==
    /\ q = NoQuery
    /\ \E b \in C1mBreedInputs, d \in TickDays, t \in TickSamples :
        Ask("to_1m_cases", b, d, t, "",
            [given |-> To1mWithMinDgDay(qh.CONVERT_1M, b, d, t),
             upper |-> To1mWithMinDgDay(qh.CONVERT_1M, UpperOf(b), d, t),
             lower |-> To1mWithMinDgDay(qh.CONVERT_1M, ToLowercase(b), d, t)])

QQhNextMinuteCases ==
    /\ q = NoQuery
    /\ \E b \in QhBreedInputs, d \in TickDays, t \in MinuteSamples :
        LET nm(x) == TrdNextMinute(qh.TX_TIME_RANGE_DATA,
                                   qh.TRADING_DAY_UTIL, x, Dt(d, t))
        IN  Ask("qh_next_minute_cases", b, d, t, "",
                [given |-> nm(b), upper |-> nm(UpperOf(b)),
                 lower |-> nm(ToLowercase(b))])

QHqTimeRangeCases ==
    /\ q = NoQuery
    /\ \E b \in HqBreedInputs :
        LET known(x) == HqTimeRangeByBreed(hq.TX_TIME_RANGE_DATA, x).ok
        IN  Ask("hq_time_range_cases", b, 0, 0, "",
                [given |-> known(b), upper |-> known(UpperOf(b)),
                 lower |-> known(ToLowercase(b))])

\* ConvertTo3m5m15m::time_range(period, time)
QTimeRange3m5m15m ==
    /\ q = NoQuery
    /\ \E p \in IntradayPeriods, t \in AlignedSamples :
        Ask("time_range_3m5m15m", "", 0, t, p,
            Ok(TimeRange3m5m15m(p, Dt(0, t))))

\* test_to_xm_sub(breed, tx_ranges, period) of convert_to_3m5m15m
QXmSub ==
    /\ q = NoQuery
    /\ \E b \in DOMAIN QhRangeRows, p \in IntradayPeriods, d \in TickDays :
        LET next_td == TduNext(qh.TRADING_DAY_UTIL, d)
        IN  /\ next_td.ok
            /\ Ask("xm_sub", b, d, 0, p,
                   XmSub(qh.TX_TIME_RANGE_DATA, b, p, d, next_td.v))

\* ConvertTo30m60m120m::current().time_range(breed, period, datetime)
QTimeRange30m60m120m ==
    /\ q = NoQuery
    /\ \E b \in SegmentBreedInputs, p \in SegmentPeriodInputs,
          d \in SegmentDays, t \in SegmentSamples :
        Ask("time_range_30m60m120m", b, d, t, p,
            TimeRange30m60m120m(qh.CONVERT_30M60M120M, b, p, Dt(d, t)))

\* test_to_xm_sub(breed, tx_ranges, period, ..) of convert_to_30m60m120m, the
\* night session on a trading Friday and the day session on the next trading
\* day
QXmSub30m60m120m ==
    /\ q = NoQuery
    /\ \E b \in DOMAIN QhRangeRows, p \in SegmentPeriods, d \in { 4 } :
        LET next_td == TduNext(qh.TRADING_DAY_UTIL, d)
        IN  /\ TduIsTd(qh.TRADING_DAY_UTIL, d)
            /\ next_td.ok
            /\ Ask("xm_sub_30m60m120m", b, d, 0, p,
                   XmSub30m60m120m(qh.TX_TIME_RANGE_DATA,
                                   qh.CONVERT_30M60M120M, b, p, d, next_td.v))

\* xm::by_breed(breed): the time_ptime_map of a period, as the windows it
\* holds, each with the times stored under it
QHqXmWindows ==
    /\ q = NoQuery
    /\ \E b \in HqXmWindowBreeds, p \in HqXmWindowPeriods :
        \E c \in { XmByBreed(hq.BREED_CONVERTERXM_HMAP,
                              hq.TX_TIME_RANGE_DATA, b, p) } :
            Ask("hq_xm_windows", b, 0, 0, p,
                IF ~c.ok THEN c
                ELSE Ok({ [info |-> w,
                           times |-> { t \in DOMAIN c.v :
                                         /\ c.v[t].s_time = w.s_time
                                         /\ c.v[t].e_time = w.e_time }] :
                          w \in { [s_time |-> c.v[t].s_time,
                                   e_time |-> c.v[t].e_time] :
                                    t \in DOMAIN c.v } }))

\* ConvertTo1m::to_1m of a tick, then ConvertTo30m60m120m::time_range of the
\* 1-minute timestamp at 60m
QTo1mThen60m ==
    /\ q = NoQuery
    /\ \E b \in { "IC", "al", "ag" }, d \in { 4, 5 }, t \in SegmentTicks :
        \E m1 \in { To1m(qh.CONVERT_1M, b, d, Hour(t), Minute(t), Second(t)) } :
            Ask("to_1m_then_60m", b, d, t, "60m",
                [m1 |-> m1,
                 xm |-> IF m1.ok
                        THEN TimeRange30m60m120m(qh.CONVERT_30M60M120M, b,
                                                 "60m", m1.v)
                        ELSE m1])

\* m1::by_breed(breed)?.convert(dt), then xm::by_breed(breed)?.convert("60m",
\* .., trade_date) of the 1-minute timestamp
QHqTo1mThen60m ==
    /\ q = NoQuery
    /\ hq.BREED_CONVERTER1M_HAMP.isSet
    /\ \E b \in { "IC", "zn", "ag" } :
        \E c \in { XmByBreed(hq.BREED_CONVERTERXM_HMAP, hq.TX_TIME_RANGE_DATA,
                             b, "60m") } :
            /\ b \in DOMAIN hq.BREED_CONVERTER1M_HAMP.v
            /\ c.ok
            /\ \E d \in { 5 }, t \in SegmentTicks, ahead \in { 0, 2 } :
                LET m1 == Converter1mConvert(hq.BREED_CONVERTER1M_HAMP.v[b],
                                             Dt(d, t))
                IN  Ask("hq_to_1m_then_60m", b, d, t, "60m",
                        [m1 |-> Ok(m1),
                         trade_date |-> d + ahead,
                         xm |-> ConverterXmConvert(c.v, m1, d + ahead)])

\* test_to_1d_sub(breed, tx_ranges, yyyymmdd, ..): yyyymmdd a trading day
QTo1dSub ==
    /\ q = NoQuery
    /\ \E b \in DOMAIN QhRangeRows, d \in { 3, 4 } :
        LET next_td == TduNext(qh.TRADING_DAY_UTIL, d)
        IN  /\ TduIsTd(qh.TRADING_DAY_UTIL, d)
            /\ next_td.ok
            /\ Ask("to_1d_sub", b, d, 0, "1d",
                   To1dSub(qh.TX_TIME_RANGE_DATA, qh.TRADING_DAY_UTIL, b, d,
                           next_td.v))

\* ConvertTo1W::time_range(breed, datetime), with the end date and the start
\* date it computes before it looks at the calendar
QTimeRange1w ==
    /\ q = NoQuery
    /\ \E b \in { "ag", "IC", "ZZ" }, d \in Days, t \in WeekSamples :
        Ask("time_range_1w", b, d, t, "1w",
            [nominal |-> EndDate1w(d, HmsOfTime(t)),
             start |-> StartDate1w(qh.TX_TIME_RANGE_DATA, b,
                                   EndDate1w(d, HmsOfTime(t))),
             range |-> TimeRange1w(qh.TX_TIME_RANGE_DATA, qh.TRADING_DAY_UTIL,
                                   b, Dt(d, t))])

\* ConvertTo1W::time_range(breed, datetime) on the calendar of two months
QLongTimeRange1w ==
    /\ q = NoQuery
    /\ \E b \in { "ag", "IC" }, d \in LongWeekDays, t \in WeekSamples :
        Ask("long_time_range_1w", b, d, t, "1w",
            [nominal |-> EndDate1w(d, HmsOfTime(t)),
             start |-> StartDate1w(qh.TX_TIME_RANGE_DATA, b,
                                   EndDate1w(d, HmsOfTime(t))),
             range |-> TimeRange1w(qh.TX_TIME_RANGE_DATA, qh.TRADING_DAY_UTIL,
                                   b, Dt(d, t))])

\* ConvertTo1Month::current().time_range(breed, datetime)
QTimeRange1month ==
    /\ q = NoQuery
    /\ \E b \in { "ag", "IC", "ZZ" }, d \in MonthDays, t \in MonthSamples :
        Ask("time_range_1month", b, d, t, "1month",
            TimeRange1month(qh.TX_TIME_RANGE_DATA, qh.TRADING_DAY_UTIL, b,
                            Dt(d, t)))

\* the bucket timestamp of a timestamp: the K-line time of to_1m_with_min_dg_day
\* for 1m, the end of the window of time_range_xm for the other periods
BucketOf(b, p, d, datetime) ==
    IF p = "1m"
    THEN To1mWithMinDgDay(qh.CONVERT_1M, b, d, datetime.tod)
    ELSE LET r == TimeRangeXm(qh.CONVERT_30M60M120M, qh.TX_TIME_RANGE_DATA,
                              qh.TRADING_DAY_UTIL, b, p, datetime)
         IN  IF r.ok THEN Ok(r.v.end) ELSE r

\* a timestamp is bucketed, and its bucket timestamp is bucketed again with
\* the same breed and period
QBucketTwice ==
    /\ q = NoQuery
    /\ \E b \in { "ag", "IC" }, p \in BucketPeriods, d \in BucketDays,
          t \in BucketSamples :
        \E first \in { BucketOf(b, p, IF Hour(t) < 3 THEN d - 1 ELSE d,
                                Dt(d, t)) } :
            Ask("bucket_twice", b, d, t, p,
                [first |-> first,
                 again |-> IF first.ok
                           THEN BucketOf(b, p,
                                         IF Hour(t) < 3 THEN d - 1 ELSE d,
                                         first.v)
                           ELSE first])

\* time_range_xm(breed, period, datetime): the window of a 1-minute timestamp
QWindowOf ==
    /\ q = NoQuery
    /\ \E b \in { "ag", "al", "IC" }, p \in WindowPeriods, d \in WindowDays,
          t \in WindowSamples :
        Ask("window_of", b, d, t, p,
            TimeRangeXm(qh.CONVERT_30M60M120M, qh.TX_TIME_RANGE_DATA,
                        qh.TRADING_DAY_UTIL, b, p, Dt(d, t)))

\* TxTimeRangeData::current().is_first_minute(breed, trading_day, time), for
\* every time of day of the samples: the times it answers true for
QIsFirstMinute ==
    /\ q = NoQuery
    /\ \E b \in QhBreedInputs, d \in Days :
        Ask("is_first_minute", b, d, 0, "",
            Ok({ t \in FirstMinuteSamples :
                    TrdIsFirstMinute(qh.TX_TIME_RANGE_DATA,
                                     qh.TRADING_DAY_UTIL, b, d, t) }))

\* time_range_by_breed(breed)?.is_first_minute(dt), for every time of day of
\* the samples: the times it answers true for
QHqIsFirstMinute ==
    /\ q = NoQuery
    /\ \E b \in HqBreedInputs, d \in Days :
        LET tr == HqTimeRangeByBreed(hq.TX_TIME_RANGE_DATA, b)
        IN  Ask("hq_is_first_minute", b, d, 0, "",
                IF ~tr.ok THEN tr
                ELSE IF ~hq.TRADE_DAY_HMAP.isSet THEN Panic
                ELSE Ok({ t \in FirstMinuteSamples :
                            TimeRangeIsFirstMinute(tr.v, hq.TRADE_DAY_HMAP,
                                                   Dt(d, t)).v }))

\* time_range_by_breed(breed)?.next_close_time(dt)
QHqNextCloseTime ==
    /\ q = NoQuery
    /\ \E b \in { "LR", "SA", "zn", "ag" }, d \in Days, t \in CloseSamples :
        LET tr == HqTimeRangeByBreed(hq.TX_TIME_RANGE_DATA, b)
        IN  Ask("hq_next_close_time", b, d, t, "",
                IF tr.ok
                THEN TimeRangeNextCloseTime(tr.v, hq.TRADE_DAY_HMAP, Dt(d, t))
                ELSE tr)

\* the caller drops the result and is free to ask again
Forget ==
    /\ q # NoQuery
    /\ q' = NoQuery
    /\ UNCHANGED << dbDays, qh, hq, stack, status, cur, loads, done >>

\* the engine after a completed start-up, answering queries
InitLoaded ==
    /\ dbDays \in Calendars
    /\ qh = [QhStatics EXCEPT
                !.BREED_INFO_VEC = QhBreedRows,
                !.TRADING_DAY_UTIL = TduLoaded(dbDays),
                !.TX_TIME_RANGE_DATA = TrdLoaded,
                !.CONVERT_1M = C1mLoaded(TrdLoaded, TduLoaded(dbDays)),
                !.CONVERT_30M60M120M = C30Loaded(TduLoaded(dbDays))]
    /\ hq = [TRADE_DAY_HMAP |-> LockSet(HqTradeDayLoaded(dbDays)),
             TX_TIME_RANGE_DATA |-> LockSet(HqTimeRangeLoaded),
             BREED_CONVERTER1M_HAMP |->
                 LockSet(HqConverter1mLoaded(HqTimeRangeLoaded)),
             BREED_CONVERTERXM_HMAP |->
                 LockSet(HqConverterXmLoaded(HqTimeRangeLoaded)),
             BREED_CLOSE_TIME_MAP |-> LockUnset,
             BREED_CONVERTER1D_MAP |->
                 LockSet(HqConverter1dLoaded(HqTimeRangeLoaded)),
             BREED_CONVERTER_MAP |-> LockSet(DOMAIN HqTimeRangeLoaded)]
    /\ TasksIdle
    /\ loads = [x \in LoadTables |-> 1]
    /\ done = { "convert_to_xm::init", "period_convert::init" }
    /\ q = NoQuery

\* the same tables loaded from a calendar of two months
\* every singleton loaded from a store whose calendar is one of calendars
InitOn(calendars) ==
    /\ dbDays \in calendars
    /\ qh = [QhStatics EXCEPT
                !.BREED_INFO_VEC = QhBreedRows,
                !.TRADING_DAY_UTIL = TduLoaded(dbDays),
                !.TX_TIME_RANGE_DATA = TrdLoaded,
                !.CONVERT_1M = C1mLoaded(TrdLoaded, TduLoaded(dbDays)),
                !.CONVERT_30M60M120M = C30Loaded(TduLoaded(dbDays))]
    /\ hq = [TRADE_DAY_HMAP |-> LockSet(HqTradeDayLoaded(dbDays)),
             TX_TIME_RANGE_DATA |-> LockSet(HqTimeRangeLoaded),
             BREED_CONVERTER1M_HAMP |->
                 LockSet(HqConverter1mLoaded(HqTimeRangeLoaded)),
             BREED_CONVERTERXM_HMAP |->
                 LockSet(HqConverterXmLoaded(HqTimeRangeLoaded)),
             BREED_CLOSE_TIME_MAP |-> LockUnset,
             BREED_CONVERTER1D_MAP |->
                 LockSet(HqConverter1dLoaded(HqTimeRangeLoaded)),
             BREED_CONVERTER_MAP |-> LockSet(DOMAIN HqTimeRangeLoaded)]
    /\ TasksIdle
    /\ loads = [x \in LoadTables |-> 1]
    /\ done = { "convert_to_xm::init", "period_convert::init" }
    /\ q = NoQuery

NextQuery ==
    \/ QTduNext
    \/ QTduPrev
    \/ QTduNextOfPrev
    \/ QTduPrevOfNext
    \/ QTduNextBoth
    \/ QTduPrevBoth
    \/ QHqNextTradeDay
    \/ QQhNextMinute
    \/ QHqNextMinute
    \/ QTo1mWithMinDgDay
    \/ QTo1mWithTradingDay
    \/ QHqTo1m
    \/ QTimeRangeXm
    \/ QConverterXm
    \/ QTrdIsTradingTime
    \/ QTrdIsHadNight
    \/ QTo1mCases
    \/ QQhNextMinuteCases
    \/ QHqTimeRangeCases
    \/ QTimeRange3m5m15m
    \/ QXmSub
    \/ QTimeRange30m60m120m
    \/ QXmSub30m60m120m
    \/ QHqXmWindows
    \/ QTo1mThen60m
    \/ QHqTo1mThen60m
    \/ QTo1dSub
    \/ QTimeRange1w
    \/ QIsFirstMinute
    \/ QHqNextCloseTime
    \/ QHqIsFirstMinute
    \/ Forget

SpecQuery == InitLoaded /\ [][NextQuery]_vars

NextLong ==
    \/ QLongTimeRange1w
    \/ QTimeRange1month
    \/ QBucketTwice
    \/ QWindowOf
    \/ Forget

InitLong == InitOn(LongCalendars)

SpecLong == InitLong /\ [][NextLong]_vars

\* ------------------------------------------ walking minute by minute
\* test_next_minute_sub: next_minute applied again and again from a start.
\* Calendars of two months: no holiday, a holiday Monday, two holidays in the
\* middle of a week, a holiday Friday
WalkCalendars ==
    { { d \in LongDays : Weekday(d) < 5 /\ d \notin h } :
        h \in { {}, { 7 }, { 8, 9 }, { 4 } } }

\* Thursday, Friday, Saturday and Monday of the first two weeks
WalkDays == { 3, 4, 5, 7 }

WalkBreeds == { "IC", "A", "ag" }

\* the first minutes of the ranges of a breed
WalkStarts(b) ==
    LET tr_vec == TrdLoaded.breed_ttr_hmap[ToUppercase(b)].tr_vec
    IN  { TimeOfHms(tr_vec[i].start) : i \in 1 .. Len(tr_vec) }

Walking == q.op = "walk" /\ q.res.state = "walking"

\* let mut c_minute = *time
WalkStart ==
    /\ q = NoQuery
    /\ \E b \in WalkBreeds, d \in WalkDays :
        \E t \in WalkStarts(b) :
            Ask("walk", b, d, t, "",
                [state |-> "walking", c_minute |-> Dt(d, t)])

\* one turn of the loop: n_minute = next_minute(breed, &c_minute).unwrap(),
\* until a time of day comes back
WalkStep ==
    /\ Walking
    /\ \E n_minute \in { TrdNextMinute(qh.TX_TIME_RANGE_DATA,
                                       qh.TRADING_DAY_UTIL, q.breed,
                                       q.res.c_minute) } :
        q' = [q EXCEPT !.res =
                IF ~n_minute.ok
                THEN [state |-> "error", c_minute |-> @.c_minute]
                ELSE [state |-> IF n_minute.v.tod = q.tod THEN "back"
                                ELSE "walking",
                      c_minute |-> n_minute.v]]
    /\ UNCHANGED << dbDays, qh, hq, stack, status, cur, loads, done >>

\* the walk is over and another one may begin
WalkEnd ==
    /\ q.op = "walk" /\ ~Walking
    /\ q' = NoQuery
    /\ UNCHANGED << dbDays, qh, hq, stack, status, cur, loads, done >>

InitWalk == InitOn(WalkCalendars)

NextWalk ==
    \/ WalkStart
    \/ WalkStep
    \/ WalkEnd

\* the loop of the test keeps calling next_minute
SpecWalk == InitWalk /\ [][NextWalk]_vars /\ WF_vars(WalkStep)

\* ------------------------------------------------------ initializers
\* Each task runs top-level calls one after another; a call is a stack of
\* frames [fn, pc].  A step is the code between two await points (or, for
\* the OnceLock writers, between the check and the set).
Frame(fn, pc) == [fn |-> fn, pc |-> pc]

Top(t) == stack[t][Len(stack[t])]

At(t, fn, pc) ==
    /\ status[t] = "ready"
    /\ Len(stack[t]) > 0
    /\ Top(t) = Frame(fn, pc)

Moved(t, pc) == [stack[t] EXCEPT ![Len(stack[t])].pc = pc]

Popped(t) == SubSeq(stack[t], 1, Len(stack[t]) - 1)

Noted(t, ld) == [cur[t] EXCEPT !.loaded = @ \/ ld]

\* the frame goes on to pc
Goto(t, pc, ld) ==
    /\ stack' = [stack EXCEPT ![t] = Moved(t, pc)]
    /\ cur' = [cur EXCEPT ![t] = Noted(t, ld)]
    /\ UNCHANGED << status, done >>

\* the frame awaits fn and resumes at retpc
CallSub(t, retpc, fn) ==
    /\ stack' = [stack EXCEPT ![t] = Append(Moved(t, retpc), Frame(fn, "start"))]
    /\ UNCHANGED << status, cur, done >>

\* return Ok(()) to the caller
Return(t, ld) ==
    /\ stack' = [stack EXCEPT ![t] = Popped(t)]
    /\ IF Len(stack[t]) = 1
       THEN /\ cur' = [cur EXCEPT ![t] = [Noted(t, ld) EXCEPT !.ret = "Ok"]]
            /\ done' = done \cup { cur[t].entry }
       ELSE /\ cur' = [cur EXCEPT ![t] = Noted(t, ld)]
            /\ UNCHANGED done
    /\ UNCHANGED status

\* return Err(..), which every caller forwards with `?`
ReturnErr(t) ==
    /\ stack' = [stack EXCEPT ![t] = << >>]
    /\ cur' = [cur EXCEPT ![t].ret = "Err"]
    /\ UNCHANGED << status, done >>

\* unwrap() on None / Err: the task unwinds
PanicNow(t, ld) ==
    /\ status' = [status EXCEPT ![t] = "panicked"]
    /\ cur' = [cur EXCEPT ![t] = [Noted(t, ld) EXCEPT !.ret = "panic"]]
    /\ UNCHANGED << stack, done >>

Loaded(x) == loads' = [loads EXCEPT ![x] = @ + 1]

\* the initializers and accessors callers invoke directly
Entries == { "TradingDayUtil::init", "convert_to_xm::init",
             "ConvertToXm::current", "trade_day::init_from_db",
             "time_range::init_from_db", "period_convert::init" }

\* a task starts a top-level call of one of the entries
CallOf(t, entries) ==
    /\ status[t] = "ready"
    /\ stack[t] = << >>
    /\ cur[t].n < MaxCalls
    /\ \E e \in entries :
          /\ stack' = [stack EXCEPT ![t] = << Frame(e, "start") >>]
          /\ cur' = [cur EXCEPT ![t] =
                        [entry |-> e, seen |-> done, loaded |-> FALSE,
                         n |-> cur[t].n + 1, ret |-> "none",
                         held |-> TduDefault, ans |-> Err("none")]]
    /\ UNCHANGED << dbDays, qh, hq, status, loads, done, q >>

Call(t) == CallOf(t, Entries)

\* BreedInfoVec::init: if !current().is_empty() { return Ok(()) }
BreedInfoVecInit_Check(t) ==
    /\ At(t, "BreedInfoVec::init", "start")
    /\ IF Len(qh.BREED_INFO_VEC) # 0 THEN Return(t, FALSE)
       ELSE Goto(t, "load", FALSE)
    /\ UNCHANGED << dbDays, qh, hq, loads, q >>

\* BreedInfoVec::init: init_from_db(pool).await?; *write() = Arc::new(..)
BreedInfoVecInit_Load(t) ==
    /\ At(t, "BreedInfoVec::init", "load")
    /\ Loaded("BreedInfoVec")
    /\ qh' = [qh EXCEPT !.BREED_INFO_VEC = QhBreedRows]
    /\ Return(t, TRUE)
    /\ UNCHANGED << dbDays, hq, q >>

\* TradingDayUtil::init: if !current().td_vec.is_empty() { return Ok(()) }
TradingDayUtilInit_Check(t) ==
    /\ At(t, "TradingDayUtil::init", "start")
    /\ IF ~TduIsEmpty(qh.TRADING_DAY_UTIL) THEN Return(t, FALSE)
       ELSE Goto(t, "load", FALSE)
    /\ UNCHANGED << dbDays, qh, hq, loads, q >>

\* TradingDayUtil::init: let mut new_inner = default(); init_from_db awaits
\* the rows of the store, which go into new_inner
TradingDayUtilInit_Load(t) ==
    /\ At(t, "TradingDayUtil::init", "load")
    /\ Loaded("TradingDayUtil")
    /\ \E new_inner \in { TduRowsRead(SortedSeq(dbDays)) } :
          /\ qh' = [qh EXCEPT !.TRADING_DAY_UTIL =
                        TduSharedWhileLoading(@, new_inner)]
          /\ cur' = [cur EXCEPT ![t] =
                        [Noted(t, TRUE) EXCEPT !.held = new_inner]]
    /\ stack' = [stack EXCEPT ![t] = Moved(t, "publish")]
    /\ UNCHANGED << dbDays, hq, status, done, q >>

\* TradingDayUtil::init: the rest of init_from_db (no await), then
\* *TRADING_DAY_UTIL.write().unwrap() = Arc::new(new_inner)
TradingDayUtilInit_Publish(t) ==
    /\ At(t, "TradingDayUtil::init", "publish")
    /\ LET r == TduFinish(cur[t].held)
       IN  IF r.ok
           THEN /\ qh' = [qh EXCEPT !.TRADING_DAY_UTIL = r.v]
                /\ Return(t, FALSE)
           ELSE /\ UNCHANGED qh
                /\ ReturnErr(t)
    /\ UNCHANGED << dbDays, hq, loads, q >>

\* TradingDayUtil::current(): the caller clones the Arc of the moment
TduReader_Current(t) ==
    /\ At(t, "TradingDayUtil::next", "start")
    /\ stack' = [stack EXCEPT ![t] = Moved(t, "use")]
    /\ cur' = [cur EXCEPT ![t].held = qh.TRADING_DAY_UTIL]
    /\ UNCHANGED << dbDays, qh, hq, status, loads, done, q >>

\* .next(day) on the Arc the caller holds, for the Friday of the first week
TduReader_Use(t) ==
    /\ At(t, "TradingDayUtil::next", "use")
    /\ stack' = [stack EXCEPT ![t] = Popped(t)]
    /\ \E r \in { TduNext(cur[t].held, 4) } :
          cur' = [cur EXCEPT ![t].ans = r,
                             ![t].ret = IF r.ok THEN "Ok" ELSE "Err"]
    /\ UNCHANGED << dbDays, qh, hq, status, loads, done, q >>

\* TxTimeRangeData::init: if !current().is_empty() { return Ok(()) }
TxTimeRangeDataInit_Check(t) ==
    /\ At(t, "TxTimeRangeData::init", "start")
    /\ IF ~TrdIsEmpty(qh.TX_TIME_RANGE_DATA) THEN Return(t, FALSE)
       ELSE Goto(t, "load", FALSE)
    /\ UNCHANGED << dbDays, qh, hq, loads, q >>

\* TxTimeRangeData::init: init_from_db(pool).await?; *write() = Arc::new(..)
TxTimeRangeDataInit_Load(t) ==
    /\ At(t, "TxTimeRangeData::init", "load")
    /\ Loaded("TxTimeRangeData")
    /\ qh' = [qh EXCEPT !.TX_TIME_RANGE_DATA = TrdInitFromDb(QhRangeRows)]
    /\ Return(t, TRUE)
    /\ UNCHANGED << dbDays, hq, q >>

\* ConvertTo1m::init: no await inside, one step
ConvertTo1mInit(t) ==
    /\ At(t, "ConvertTo1m::init", "start")
    /\ IF ~C1mIsEmpty(qh.CONVERT_1M)
       THEN /\ UNCHANGED qh
            /\ Return(t, FALSE)
       ELSE IF Len(qh.BREED_INFO_VEC) = 0 \/ TrdIsEmpty(qh.TX_TIME_RANGE_DATA)
       THEN /\ UNCHANGED qh
            /\ ReturnErr(t)
       ELSE /\ qh' = [qh EXCEPT !.CONVERT_1M =
                        C1mInitForBreedVec(
                            C1mDefault(qh.TX_TIME_RANGE_DATA,
                                       qh.TRADING_DAY_UTIL),
                            qh.BREED_INFO_VEC)]
            /\ Return(t, FALSE)
    /\ UNCHANGED << dbDays, hq, loads, q >>

\* ConvertTo30m60m120m::init: if !current().store_data.is_empty() { return }
ConvertTo30m60m120mInit_Check(t) ==
    /\ At(t, "ConvertTo30m60m120m::init", "start")
    /\ IF DOMAIN qh.CONVERT_30M60M120M.store_data # {} THEN Return(t, FALSE)
       ELSE Goto(t, "load", FALSE)
    /\ UNCHANGED << dbDays, qh, hq, loads, q >>

\* ConvertTo30m60m120m::init: init_from_db(pool).await?; *write() = ..
ConvertTo30m60m120mInit_Load(t) ==
    /\ At(t, "ConvertTo30m60m120m::init", "load")
    /\ Loaded("ConvertTo30m60m120m")
    /\ qh' = [qh EXCEPT !.CONVERT_30M60M120M = C30Loaded(qh.TRADING_DAY_UTIL)]
    /\ Return(t, TRUE)
    /\ UNCHANGED << dbDays, hq, q >>

\* convert_to_xm::init: the sub-initializers it awaits, in order
XmInitPlan ==
    [start |-> [call |-> "BreedInfoVec::init", then |-> "tdu"],
     tdu   |-> [call |-> "TradingDayUtil::init", then |-> "trd"],
     trd   |-> [call |-> "TxTimeRangeData::init", then |-> "c1m"],
     c1m   |-> [call |-> "ConvertTo1m::init", then |-> "c30"],
     c30   |-> [call |-> "ConvertTo30m60m120m::init", then |-> "ret"]]

XmInit_Call(t) ==
    /\ \E pc \in DOMAIN XmInitPlan :
          /\ At(t, "convert_to_xm::init", pc)
          /\ CallSub(t, XmInitPlan[pc].then, XmInitPlan[pc].call)
    /\ UNCHANGED << dbDays, qh, hq, loads, q >>

XmInit_Return(t) ==
    /\ At(t, "convert_to_xm::init", "ret")
    /\ Return(t, FALSE)
    /\ UNCHANGED << dbDays, qh, hq, loads, q >>

\* ConvertToXm::current(): the first access runs ConvertToXm::default(),
\* which unwraps CONVERT_1D.get() and CONVERT_1W.get()
XmCurrent(t) ==
    /\ At(t, "ConvertToXm::current", "start")
    /\ IF qh.CONVERT_XM.isSet
       THEN /\ UNCHANGED qh
            /\ Return(t, FALSE)
       ELSE IF ~qh.CONVERT_1D.isSet \/ ~qh.CONVERT_1W.isSet
       THEN /\ UNCHANGED qh
            /\ PanicNow(t, FALSE)
       ELSE /\ qh' = [qh EXCEPT !.CONVERT_XM =
                        LockSet([c1m |-> qh.CONVERT_1M,
                                 c30_60_120m |-> qh.CONVERT_30M60M120M])]
            /\ Return(t, FALSE)
    /\ UNCHANGED << dbDays, hq, loads, q >>

\* ConvertTo1Month::default(), run by the first access to CONVERT_1MTH
C1MonthDefault(trd, tdu) == [trd |-> trd, tdu |-> tdu]

\* ConvertTo1Month::current().time_range("IC", Thursday 09:31:00): the first
\* access builds the value of the lazy static from the tables of the moment,
\* and no code stores into it afterwards
Month1Current(t) ==
    /\ At(t, "ConvertTo1Month::current", "start")
    /\ \E lock \in { IF qh.CONVERT_1MTH.isSet THEN qh.CONVERT_1MTH
                     ELSE LockSet(C1MonthDefault(qh.TX_TIME_RANGE_DATA,
                                                 qh.TRADING_DAY_UTIL)) } :
        /\ qh' = [qh EXCEPT !.CONVERT_1MTH = lock]
        /\ \E r \in { TimeRange1month(lock.v.trd, lock.v.tdu, "IC",
                                      Dt(3, MkTime(9, 31, 0))) } :
              cur' = [cur EXCEPT ![t].ans = r,
                                 ![t].ret = IF r.ok THEN "Ok" ELSE "Err"]
    /\ stack' = [stack EXCEPT ![t] = Popped(t)]
    /\ UNCHANGED << dbDays, hq, status, loads, done, q >>

\* trade_day::init_from_db: if TRADE_DAY_HMAP.get().is_some() { return }
HqTradeDayInit_Check(t) ==
    /\ At(t, "trade_day::init_from_db", "start")
    /\ IF hq.TRADE_DAY_HMAP.isSet THEN Return(t, FALSE)
       ELSE Goto(t, "load", FALSE)
    /\ UNCHANGED << dbDays, qh, hq, loads, q >>

\* trade_day::init_from_db: trade_days_from_db(pool).await?; set(..).unwrap()
HqTradeDayInit_Load(t) ==
    /\ At(t, "trade_day::init_from_db", "load")
    /\ Loaded("trade_day")
    /\ IF hq.TRADE_DAY_HMAP.isSet
       THEN /\ UNCHANGED hq
            /\ PanicNow(t, TRUE)
       ELSE /\ hq' = [hq EXCEPT !.TRADE_DAY_HMAP =
                        LockSet(HqTradeDayLoaded(dbDays))]
            /\ Return(t, TRUE)
    /\ UNCHANGED << dbDays, qh, q >>

\* time_range::init_from_db: the check, then trade_day::init_from_db
HqTimeRangeInit_Check(t) ==
    /\ At(t, "time_range::init_from_db", "start")
    /\ IF hq.TX_TIME_RANGE_DATA.isSet THEN Return(t, FALSE)
       ELSE CallSub(t, "load", "trade_day::init_from_db")
    /\ UNCHANGED << dbDays, qh, hq, loads, q >>

\* time_range::init_from_db: time_range_list_from_db(pool).await?; set(..)
HqTimeRangeInit_Load(t) ==
    /\ At(t, "time_range::init_from_db", "load")
    /\ Loaded("time_range")
    /\ IF hq.TX_TIME_RANGE_DATA.isSet
       THEN /\ UNCHANGED hq
            /\ PanicNow(t, TRUE)
       ELSE /\ hq' = [hq EXCEPT !.TX_TIME_RANGE_DATA = LockSet(HqTimeRangeLoaded)]
            /\ Return(t, TRUE)
    /\ UNCHANGED << dbDays, qh, q >>

\* m1::init_from_time_range: the check, then time_range::init_from_db
HqM1Init_Check(t) ==
    /\ At(t, "m1::init_from_time_range", "start")
    /\ IF hq.BREED_CONVERTER1M_HAMP.isSet THEN Return(t, FALSE)
       ELSE CallSub(t, "set", "time_range::init_from_db")
    /\ UNCHANGED << dbDays, qh, hq, loads, q >>

\* m1::init_from_time_range: BREED_CONVERTER1M_HAMP.set(..).unwrap()
HqM1Init_Set(t) ==
    /\ At(t, "m1::init_from_time_range", "set")
    /\ IF hq.BREED_CONVERTER1M_HAMP.isSet
       THEN /\ UNCHANGED hq
            /\ PanicNow(t, FALSE)
       ELSE /\ hq' = [hq EXCEPT !.BREED_CONVERTER1M_HAMP =
                        LockSet(HqConverter1mLoaded(hq.TX_TIME_RANGE_DATA.v))]
            /\ Return(t, FALSE)
    /\ UNCHANGED << dbDays, qh, loads, q >>

\* xm::init_from_time_range: the check, then time_range::init_from_db
HqXmInit_Check(t) ==
    /\ At(t, "xm::init_from_time_range", "start")
    /\ IF hq.BREED_CONVERTERXM_HMAP.isSet THEN Return(t, FALSE)
       ELSE CallSub(t, "set", "time_range::init_from_db")
    /\ UNCHANGED << dbDays, qh, hq, loads, q >>

\* xm::init_from_time_range: BREED_CONVERTERXM_HMAP.set(..).unwrap()
HqXmInit_Set(t) ==
    /\ At(t, "xm::init_from_time_range", "set")
    /\ IF hq.BREED_CONVERTERXM_HMAP.isSet
       THEN /\ UNCHANGED hq
            /\ PanicNow(t, FALSE)
       ELSE /\ hq' = [hq EXCEPT !.BREED_CONVERTERXM_HMAP =
                        LockSet(HqConverterXmLoaded(hq.TX_TIME_RANGE_DATA.v))]
            /\ Return(t, FALSE)
    /\ UNCHANGED << dbDays, qh, loads, q >>

\* d1::init_from_time_range: the check reads BREED_CLOSE_TIME_MAP, which no
\* code sets, then time_range::init_from_db
HqD1Init_Check(t) ==
    /\ At(t, "d1::init_from_time_range", "start")
    /\ IF hq.BREED_CLOSE_TIME_MAP.isSet THEN Return(t, FALSE)
       ELSE CallSub(t, "set", "time_range::init_from_db")
    /\ UNCHANGED << dbDays, qh, hq, loads, q >>

\* d1::init_from_time_range: BREED_CONVERTER1D_MAP.set(..).unwrap()
HqD1Init_Set(t) ==
    /\ At(t, "d1::init_from_time_range", "set")
    /\ IF hq.BREED_CONVERTER1D_MAP.isSet
       THEN /\ UNCHANGED hq
            /\ PanicNow(t, FALSE)
       ELSE /\ hq' = [hq EXCEPT !.BREED_CONVERTER1D_MAP =
                        LockSet(HqConverter1dLoaded(hq.TX_TIME_RANGE_DATA.v))]
            /\ Return(t, FALSE)
    /\ UNCHANGED << dbDays, qh, loads, q >>

\* period_convert::init: the sub-initializers it awaits, in order
PeriodConvertInitPlan ==
    [start |-> [call |-> "trade_day::init_from_db", then |-> "tr"],
     tr    |-> [call |-> "time_range::init_from_db", then |-> "m1"],
     m1    |-> [call |-> "m1::init_from_time_range", then |-> "xm"],
     xm    |-> [call |-> "xm::init_from_time_range", then |-> "d1"],
     d1    |-> [call |-> "d1::init_from_time_range", then |-> "fin"]]

PeriodConvertInit_Call(t) ==
    /\ \E pc \in DOMAIN PeriodConvertInitPlan :
          /\ At(t, "period_convert::init", pc)
          /\ CallSub(t, PeriodConvertInitPlan[pc].then,
                     PeriodConvertInitPlan[pc].call)
    /\ UNCHANGED << dbDays, qh, hq, loads, q >>

\* period_convert::init: the check and set of BREED_CONVERTER_MAP (no await
\* in between)
PeriodConvertInit_Finish(t) ==
    /\ At(t, "period_convert::init", "fin")
    /\ IF hq.BREED_CONVERTER_MAP.isSet
       THEN UNCHANGED hq
       ELSE hq' = [hq EXCEPT !.BREED_CONVERTER_MAP =
                      LockSet(DOMAIN hq.TX_TIME_RANGE_DATA.v)]
    /\ Return(t, FALSE)
    /\ UNCHANGED << dbDays, qh, loads, q >>

\* the process before any initializer ran
InitFresh ==
    /\ dbDays = WeekDays
    /\ qh = QhStatics
    /\ hq = HqStatics
    /\ TasksIdle
    /\ loads = [x \in LoadTables |-> 0]
    /\ done = {}
    /\ q = NoQuery

NextInit ==
    \E t \in Tasks :
        \/ Call(t)
        \/ BreedInfoVecInit_Check(t)
        \/ BreedInfoVecInit_Load(t)
        \/ TradingDayUtilInit_Check(t)
        \/ TradingDayUtilInit_Load(t)
        \/ TradingDayUtilInit_Publish(t)
        \/ TxTimeRangeDataInit_Check(t)
        \/ TxTimeRangeDataInit_Load(t)
        \/ ConvertTo1mInit(t)
        \/ ConvertTo30m60m120mInit_Check(t)
        \/ ConvertTo30m60m120mInit_Load(t)
        \/ XmInit_Call(t)
        \/ XmInit_Return(t)
        \/ XmCurrent(t)
        \/ HqTradeDayInit_Check(t)
        \/ HqTradeDayInit_Load(t)
        \/ HqTimeRangeInit_Check(t)
        \/ HqTimeRangeInit_Load(t)
        \/ HqM1Init_Check(t)
        \/ HqM1Init_Set(t)
        \/ HqXmInit_Check(t)
        \/ HqXmInit_Set(t)
        \/ HqD1Init_Check(t)
        \/ HqD1Init_Set(t)
        \/ PeriodConvertInit_Call(t)
        \/ PeriodConvertInit_Finish(t)

SpecInit == InitFresh /\ [][NextInit]_vars


\* ------------------------------------------- readers during the loading
\* the trading-day table is loaded while other tasks read it
SnapEntries == { "TradingDayUtil::init", "TradingDayUtil::next" }

SnapCalendars == { WeekDays, WeekDays \ { 1, 2 }, WeekDays \ { 7 } }

\* the process before any initializer ran, the store holding one of calendars
InitFreshOn(calendars) ==
    /\ dbDays \in calendars
    /\ qh = QhStatics
    /\ hq = HqStatics
    /\ TasksIdle
    /\ loads = [x \in LoadTables |-> 0]
    /\ done = {}
    /\ q = NoQuery

NextSnap ==
    \E t \in Tasks :
        \/ CallOf(t, SnapEntries)
        \/ TradingDayUtilInit_Check(t)
        \/ TradingDayUtilInit_Load(t)
        \/ TradingDayUtilInit_Publish(t)
        \/ TduReader_Current(t)
        \/ TduReader_Use(t)

InitSnap == InitFreshOn(SnapCalendars)

SpecSnap == InitSnap /\ [][NextSnap]_vars

\* ------------------------------------- handles taken around the init
\* convert_to_xm::init runs while other tasks take the monthly bucketer;
\* the store holds the weekdays of two months
LazyEntries == { "convert_to_xm::init", "ConvertTo1Month::current" }

InitLazy == InitFreshOn({ { d \in LongDays : Weekday(d) < 5 } })

NextLazy ==
    \E t \in Tasks :
        \/ CallOf(t, LazyEntries)
        \/ BreedInfoVecInit_Check(t)
        \/ BreedInfoVecInit_Load(t)
        \/ TradingDayUtilInit_Check(t)
        \/ TradingDayUtilInit_Load(t)
        \/ TradingDayUtilInit_Publish(t)
        \/ TxTimeRangeDataInit_Check(t)
        \/ TxTimeRangeDataInit_Load(t)
        \/ ConvertTo1mInit(t)
        \/ ConvertTo30m60m120mInit_Check(t)
        \/ ConvertTo30m60m120mInit_Load(t)
        \/ XmInit_Call(t)
        \/ XmInit_Return(t)
        \/ Month1Current(t)

SpecLazy == InitLazy /\ [][NextLazy]_vars

\* ------------------------------------------- reference definitions
\* what the properties below are stated against: the calendar of the store
\* and the session rows, read directly
LaterDays(d) == { x \in dbDays : x > d }
EarlierDays(d) == { x \in dbDays : x < d }
NextTradingDay(d) == CHOOSE x \in LaterDays(d) : \A y \in LaterDays(d) : x <= y
PrevTradingDay(d) ==
    CHOOSE x \in EarlierDays(d) : \A y \in EarlierDays(d) : x >= y
FirstLoaded == CHOOSE x \in dbDays : \A y \in dbDays : x <= y
LastLoaded == CHOOSE x \in dbDays : \A y \in dbDays : x >= y
InLoadedRange(d) == FirstLoaded <= d /\ d <= LastLoaded

HhmmTime(hhmm) == MkTime(hhmm \div 100, hhmm % 100, 0)

QhKnown(b) == ToUppercase(b) \in DOMAIN QhRangeRows
QhRow(b) == QhRangeRows[ToUppercase(b)]
\* the first range of the row is the evening one
QhNightBreed(b) == QhRow(b)[1] >= 2100
QhNightOpen1(b) == HhmmTime(QhRow(b)[1])
QhNightClose(b) == HhmmTime(QhRow(b)[2])
QhDayOpen1(b) == HhmmTime(QhRow(b)[IF QhNightBreed(b) THEN 3 ELSE 1])
QhDayClose(b) == HhmmTime(QhRow(b)[Len(QhRow(b))])
QhRecHasNight(d) ==
    /\ d \in DOMAIN qh.TRADING_DAY_UTIL.day_info_map
    /\ qh.TRADING_DAY_UTIL.day_info_map[d].has_night

HqKnown(b) == b \in DOMAIN HqRangeRows
HqOpens(b) == HqRangeRows[b].open_times
HqCloses(b) == HqRangeRows[b].close_times
HqNightBreed(b) == HqOpens(b)[1] # HqOpens(b)[2]
HqNightOpen1(b) == TimeAddMinute(HqOpens(b)[1])
HqNightClose(b) == HqCloses(b)[1]
HqDayOpen1(b) == TimeAddMinute(HqOpens(b)[IF HqNightBreed(b) THEN 2 ELSE 1])
HqDayClose(b) == HqCloses(b)[Len(HqCloses(b))]
HqRecHasNight(d) ==
    /\ d \in DOMAIN hq.TRADE_DAY_HMAP.v
    /\ hq.TRADE_DAY_HMAP.v[d].has_night
\* a time of day inside a session segment of the breed, ends included
HqInSession(b, tod) ==
    \E i \in 1 .. Len(HqOpens(b)) :
        IF HqOpens(b)[i] <= HqCloses(b)[i]
        THEN HqOpens(b)[i] <= tod /\ tod <= HqCloses(b)[i]
        ELSE HqOpens(b)[i] <= tod \/ tod <= HqCloses(b)[i]

\* ------------------------------------------------- C1: the day's last close
C1QhCase ==
    /\ q.op = "qh_next_minute"
    /\ QhKnown(q.breed)
    /\ q.tod = QhDayClose(q.breed)
    /\ q.res.ok

\* the result C1 describes for src/qh, the record of night_day deciding
C1QhExpected(night_day) ==
    IF QhNightBreed(q.breed) /\ QhRecHasNight(night_day)
    THEN Dt(q.day, QhNightOpen1(q.breed))
    ELSE Dt(NextTradingDay(q.day), QhDayOpen1(q.breed))

C1HqCase ==
    /\ q.op = "hq_next_minute"
    /\ HqKnown(q.breed)
    /\ q.tod = HqDayClose(q.breed)
    /\ q.res.ok

C1HqExpected ==
    IF HqNightBreed(q.breed) /\ HqRecHasNight(q.day)
    THEN Dt(q.day, HqNightOpen1(q.breed))
    ELSE Dt(HqNextOf(dbDays, q.day), HqDayOpen1(q.breed))

\* C1 as stated: at the breed's last close of the day next_minute returns
\* dt's date at the night open + 1 minute when the breed has a night session
\* and the calendar record of dt's own date has has_night set, and
\* next_trading_day(dt's date) at the day open + 1 minute otherwise -- in
\* both implementations.
C1_AtDayCloseByOwnRecord ==
    /\ C1QhCase => q.res.v = C1QhExpected(q.day)
    /\ C1HqCase => q.res.v.dt = C1HqExpected

\* C1 amended: whenever next_minute succeeds at the breed's last close of the
\* day, hq::future decides by the has_night flag of the record of dt's date,
\* and src/qh decides by the has_night flag of the record of
\* next_trading_day(dt's date); the result is dt's date at the night open + 1
\* minute when the breed has a night session and that flag is set, and the
\* next trading day at the day open + 1 minute otherwise.
C1_AtDayCloseByNightRecord ==
    /\ C1QhCase => q.res.v = C1QhExpected(NextTradingDay(q.day))
    /\ C1HqCase => q.res.v.dt = C1HqExpected

\* a night breed closes a trading day whose own record has has_night set, and
\* src/qh steps to the next trading day's day open: no night before a holiday
C1_Witness ==
    /\ C1QhCase
    /\ q.breed = "A"
    /\ q.day \in dbDays
    /\ QhRecHasNight(q.day)
    /\ q.res.v = Dt(NextTradingDay(q.day), MkTime(9, 1, 0))

\* ------------------------------------------------ C2: the night close
C2QhCase ==
    /\ q.op = "qh_next_minute"
    /\ QhKnown(q.breed)
    /\ QhNightBreed(q.breed)
    /\ q.tod = QhNightClose(q.breed)
    /\ q.res.ok

C2HqCase ==
    /\ q.op = "hq_next_minute"
    /\ HqKnown(q.breed)
    /\ HqNightBreed(q.breed)
    /\ q.tod = HqNightClose(q.breed)
    /\ q.res.ok

\* the date C2 describes, given the calendar's next trading day
C2Date(next) ==
    IF q.tod = MkTime(23, 0, 0) THEN next
    ELSE IF q.day \in dbDays THEN q.day ELSE next

\* C2: whenever next_minute succeeds at the night-session close of a night
\* breed it returns the day open + 1 minute, on next_trading_day(dt's date)
\* for a 23:00 close and, for a 01:00 or 02:30 close, on dt's own date if
\* that is a trading day and on next_trading_day(dt's date) otherwise.
C2_NightCloseStepsToDayOpen ==
    /\ C2QhCase =>
          q.res.v = Dt(C2Date(NextTradingDay(q.day)), QhDayOpen1(q.breed))
    /\ C2HqCase =>
          q.res.v.dt = Dt(C2Date(HqNextOf(dbDays, q.day)),
                          HqDayOpen1(q.breed))

\* a Saturday 02:30 close steps to the next trading day's 09:01:00
C2_Witness ==
    /\ C2QhCase
    /\ q.breed = "ag"
    /\ Weekday(q.day) = 5
    /\ q.res.v = Dt(NextTradingDay(q.day), MkTime(9, 1, 0))

\* ------------------------------------------------ C3: OutOfSession
\* C3 as stated: the 1-minute bucketers never return Ok with a timestamp
\* whose time of day is not a trading time of the breed.
C3_OkOnlyInSession ==
    /\ (q.op \in { "to_1m_min_dg_day", "to_1m_trading_day" } /\ q.res.ok)
          => TrdIsTradingTime(qh.TX_TIME_RANGE_DATA, q.breed, q.res.v.tod)
    /\ (q.op = "hq_to_1m" /\ q.res.ok)
          => HqInSession(q.breed, q.res.v.tod)

\* ------------------------------------------------ C4: next / prev round trip
\* C4: for every trading day d of the loaded calendar next(prev(d)) = d and
\* prev(next(d)) = d, whenever both calls of the chain succeed.
C4_NextPrevRoundTrip ==
    /\ (q.op = "tdu_next_of_prev" /\ q.day \in dbDays /\ q.res.ok)
          => q.res.v = q.day
    /\ (q.op = "tdu_prev_of_next" /\ q.day \in dbDays /\ q.res.ok)
          => q.res.v = q.day

\* the round trip crosses a gap of non-trading days
C4_Witness ==
    /\ q.op = "tdu_next_of_prev"
    /\ q.day \in dbDays
    /\ q.res.ok
    /\ q.res.v = q.day
    /\ q.day - PrevTradingDay(q.day) > 1

\* ------------------------------------------------ C5: table against scan
\* C5: for every date of the loaded range, trading day or not, next and prev
\* return the same day as next_slow and prev_slow whenever both succeed: the
\* earliest trading day strictly after the date, the latest strictly before.
C5_TableAgreesWithScan ==
    /\ (q.op = "tdu_next_both" /\ InLoadedRange(q.day)
            /\ q.res.fast.ok /\ q.res.slow.ok)
          => /\ q.res.fast.v = q.res.slow.v
             /\ q.res.fast.v = NextTradingDay(q.day)
    /\ (q.op = "tdu_prev_both" /\ InLoadedRange(q.day)
            /\ q.res.fast.ok /\ q.res.slow.ok)
          => /\ q.res.fast.v = q.res.slow.v
             /\ q.res.fast.v = PrevTradingDay(q.day)

\* prev of a Sunday inside the range is the preceding Friday
C5_Witness ==
    /\ q.op = "tdu_prev_both"
    /\ Weekday(q.day) = 6
    /\ q.res.fast.ok
    /\ q.res.slow.ok
    /\ q.res.fast.v = q.day - 2

\* ------------------------------------------------ C6: UnknownDate
\* C6 as stated: a calendar query for a date before the earliest or after the
\* latest loaded date fails with a typed error returned to the caller and
\* never aborts.
C6_OutOfRangeIsTypedError ==
    (q.op \in { "tdu_next", "tdu_prev", "hq_next_trade_day" }
        /\ ~InLoadedRange(q.day))
      => /\ ~q.res.ok
         /\ q.res.err \in { "NextTradingDay", "PrevTradingDay" }

\* ------------------------------------------------ C7: concurrent callers
\* the initializers C7 names
RacingInitializers == { "TradingDayUtil::init", "trade_day::init_from_db",
                        "time_range::init_from_db" }

\* C7 as stated: however the tasks' calls interleave, each table is read
\* from the store at most once and no caller of an initializer panics.
C7_LoadedOnceNoPanic ==
    /\ \A x \in { "TradingDayUtil", "trade_day", "time_range" } : loads[x] <= 1
    /\ \A t \in Tasks :
          cur[t].entry \in RacingInitializers => status[t] # "panicked"

\* ------------------------------------------------ C8: calling init again
\* C8 as stated: a top-level initializer called after an earlier call of it
\* returned Ok performs no load and does not panic.
C8_SecondInitIsQuiet ==
    \A t \in Tasks :
        (/\ cur[t].entry \in { "period_convert::init", "convert_to_xm::init" }
         /\ cur[t].entry \in cur[t].seen)
          => /\ status[t] # "panicked"
             /\ ~cur[t].loaded

\* ------------------------------------------------ C9: the router after init
\* C9 as stated: ConvertToXm::current(), called after convert_to_xm::init has
\* returned Ok, completes without a panic.
C9_CurrentAfterInitNoPanic ==
    \A t \in Tasks :
        (/\ cur[t].entry = "ConvertToXm::current"
         /\ "convert_to_xm::init" \in cur[t].seen)
          => status[t] # "panicked"

\* ------------------------------------------------ C10: the period router
TenPeriods == { "1m", "3m", "5m", "15m", "30m", "60m", "120m", "1d", "1w",
                "1month" }

\* C10 as stated: the router fails if and only if the period is not one of
\* the ten period strings.
C10_FailsIffNotOfTen ==
    q.op \in { "time_range_xm", "converter_xm" }
      => (~q.res.ok <=> q.period \notin TenPeriods)

\* the bucketer of each period string time_range_xm serves
BucketerOf(period) ==
    CASE period \in { "3m", "5m", "15m" } -> "ConvertTo3m5m15m"
      [] period \in { "30m", "60m", "120m" } -> "ConvertTo30m60m120m"
      [] period = "1d" -> "ConvertTo1d"
      [] period = "1w" -> "ConvertTo1W"
      [] period \in { "1mth", "1month" } -> "ConvertTo1Month"

\* C10 amended: ConvertToXm::time_range_xm fails with PeriodNotSupport if and
\* only if the period is not one of 3m, 5m, 15m, 30m, 60m, 120m, 1d, 1w,
\* 1mth, 1month, and dispatches each of these to the bucketer of that period;
\* ConverterXm::convert fails with PeriodError if and only if the period is
\* not one of 5m, 15m, 30m, 60m, 120m.  Neither serves 1m.
C10_FailsIffNotRouted ==
    /\ q.op = "time_range_xm"
          => IF q.period \in (TenPeriods \ { "1m" }) \cup { "1mth" }
             THEN q.res.ok /\ q.res.v = BucketerOf(q.period)
             ELSE ~q.res.ok /\ q.res.err = "PeriodNotSupport"
    /\ q.op = "converter_xm"
          => IF q.period \in { "5m", "15m", "30m", "60m", "120m" }
             THEN q.res.ok
             ELSE ~q.res.ok /\ q.res.err = "PeriodError"

\* the router is asked for 1m and refuses
C10_Witness ==
    /\ q.op = "time_range_xm"
    /\ q.period = "1m"
    /\ ~q.res.ok
    /\ q.res.err = "PeriodNotSupport"

\* ------------------------------------------------ C11: unknown breed
\* the operations of C11 that take a breed
BreedOps == { "qh_next_minute", "to_1m_min_dg_day", "to_1m_trading_day",
              "hq_next_minute", "hq_to_1m", "trd_is_trading_time",
              "trd_is_had_night" }

\* the breed of the query has no loaded session data
UnknownBreed ==
    IF q.op \in { "hq_next_minute", "hq_to_1m" }
    THEN q.breed \notin DOMAIN HqRangeRows
    ELSE UpperOf(q.breed) \notin DOMAIN QhRangeRows

\* C11 as stated: every operation asked about a breed without loaded session
\* data fails with the unknown-breed error; none answers with a value.
C11_UnknownBreedSurfaced ==
    (q.op \in BreedOps /\ UnknownBreed)
      => /\ ~q.res.ok
         /\ q.res.err \in { "BreedNotExist", "BreedError" }

\* ------------------------------------------------ C12: letter case
\* C12 as stated: an operation gives the same result for a breed string, its
\* upper-cased and its lower-cased spelling.
C12_CaseInsensitive ==
    q.op \in { "to_1m_cases", "qh_next_minute_cases", "hq_time_range_cases" }
      => /\ q.res.upper = q.res.given
         /\ q.res.lower = q.res.given

\* ------------------------------------------------ C13: the 1m bucket
\* the closes of the breed's sessions, as times of day
QhCloseTimes(b) ==
    { HhmmTime(QhRow(b)[2 * i]) : i \in 1 .. (Len(QhRow(b)) \div 2) }

\* the first minute of the breed's first session (open + 1 minute)
QhFirstOpen1(b) == HhmmTime(QhRow(b)[1])

\* the tick lies in the minute before the first session's open
InPreOpenMinute(b, tod) ==
    tod - (tod % 60) = QhFirstOpen1(b) - 120

\* the natural date of the tick to_1m_with_min_dg_day starts from
C13Date == IF Hour(q.tod) < 3 THEN q.day + 1 ELSE q.day

C13Case ==
    /\ q.op = "to_1m_min_dg_day"
    /\ QhKnown(q.breed)
    /\ q.res.ok

\* the bucket C13 describes
C13Expected ==
    IF q.tod = 0 THEN Dt(C13Date, 0)
    ELSE IF InPreOpenMinute(q.breed, q.tod)
    THEN Dt(C13Date, QhFirstOpen1(q.breed))
    ELSE IF q.tod \in QhCloseTimes(q.breed) THEN Dt(C13Date, q.tod)
    ELSE AddMinutes(Dt(C13Date, q.tod - (q.tod % 60)), 1)

\* C13 as stated: an accepted tick maps to its own minute only when it is
\* exactly on a session close (hh:mm:00), to the open + 1 minute in the
\* minute before the first open, to midnight at 00:00:00, and otherwise to
\* the truncated tick + 1 minute, the date following across midnight.
C13_BucketByExactClose ==
    C13Case => q.res.v = C13Expected

\* ------------------------------------------------ C14: the intraday window
\* seconds since day 0 00:00:00
DtSecs(dt) == dt.date * DaySecs + dt.tod

\* C14: for p in {3, 5, 15} and a 1m-aligned t the window ends at or after t
\* and less than p minutes after it, starts at or before t, and spans p
\* one-minute marks (end - start = p - 1 minutes).
C14_WindowAroundT ==
    q.op = "time_range_3m5m15m" =>
        LET p == Pv(q.period).v
            t == DtSecs(Dt(q.day, q.tod))
            s == DtSecs(q.res.v.start)
            e == DtSecs(q.res.v.end)
        IN  /\ q.res.ok
            /\ t <= e /\ e < t + 60 * p
            /\ s <= t
            /\ e - s = 60 * (p - 1)

\* a 15m window that starts before midnight and ends on the next date
C14_Witness ==
    /\ q.op = "time_range_3m5m15m"
    /\ q.period = "15m"
    /\ q.tod = MkTime(23, 50, 0)
    /\ q.res.v = TimeRangeDateTime(Dt(0, MkTime(23, 46, 0)), Dt(1, 0))

\* ------------------------------------------------ C15: buckets of a session
\* the opens of the breed's sessions (the minute before the first timestamp)
QhOpenTimes(b) ==
    { HhmmTime(QhRow(b)[2 * i - 1]) - 60 : i \in 1 .. (Len(QhRow(b)) \div 2) }

\* C15: every bucket of a breed's 1-minute timestamps holds exactly p of
\* them, and closes a multiple of p minutes past the open of a session.
C15_BucketsOfExactlyP ==
    q.op = "xm_sub" =>
        LET p == Pv(q.period).v
        IN  \A g \in q.res :
              /\ Cardinality(g.mins) = p
              /\ \E o \in QhOpenTimes(q.breed) :
                    /\ ((g.tr.end.tod - o) % DaySecs) % (60 * p) = 0
                    /\ \A m \in g.mins :
                          LET past == (m.tod - o) % DaySecs
                          IN  past > 0 /\ past <= (g.tr.end.tod - o) % DaySecs

\* the buckets of a breed trading over midnight, one of them crossing it
C15_Witness ==
    /\ q.op = "xm_sub"
    /\ q.breed = "AG"
    /\ q.period = "15m"
    /\ \E g \in q.res : g.tr.start.date < g.tr.end.date /\ Cardinality(g.mins) = 15

\* ------------------------------------------------ C16: night into day
\* the window of the result runs from the night session into the day session
NightIntoDay ==
    /\ q.res.v.start.tod < MkTime(3, 0, 0)
    /\ q.res.v.end.tod > MkTime(8, 0, 0)

\* C16: in a 30m/60m/120m window running from the night into the day session,
\* an input of the night portion gets the end date of its own date if that is
\* a trading day and of the next trading day otherwise, and an input of the
\* day portion gets the start date prev_trading_day(input date) + 1 day.
C16_NightIntoDayDates ==
    (q.op = "time_range_30m60m120m" /\ q.res.ok /\ NightIntoDay)
      => /\ q.tod < MkTime(3, 0, 0)
              => q.res.v.end.date =
                    (IF q.day \in dbDays THEN q.day ELSE NextTradingDay(q.day))
         /\ q.tod > MkTime(9, 0, 0)
              => q.res.v.start.date = PrevTradingDay(q.day) + 1

\* Saturday 02:15 of ag lies in the 60m window 02:01 - 09:30, which ends on
\* the next trading day
C16_Witness ==
    /\ q.op = "time_range_30m60m120m"
    /\ q.breed = "ag" /\ q.period = "60m"
    /\ q.tod = MkTime(2, 15, 0)
    /\ q.day \notin dbDays
    /\ q.res.ok
    /\ q.res.v = TimeRangeDateTime(Dt(q.day, MkTime(2, 1, 0)),
                                   Dt(NextTradingDay(q.day), MkTime(9, 30, 0)))

\* ------------------------------------- C17: the windows of a trading day
\* the number of 1-minute timestamps of the breed's trading day
QhDayMinutes(b) == RangeLenSum(QhRow(b), Len(QhRow(b)) \div 2)

\* the remainder the last window of the day holds
LastLen(total, p) == IF total % p = 0 THEN p ELSE total % p

\* the windows: each timestamp inside its own, no two overlapping, all but the
\* last of the day of p timestamps and the last of the remainder
PartitionOf(groups, total, p) ==
    /\ \A g \in groups :
          /\ \A m \in g.mins :
                /\ DtSecs(g.tr.start) <= DtSecs(m)
                /\ DtSecs(m) <= DtSecs(g.tr.end)
          /\ \A h \in groups :
                h # g => \/ DtSecs(g.tr.end) < DtSecs(h.tr.start)
                         \/ DtSecs(h.tr.end) < DtSecs(g.tr.start)
          /\ Cardinality(g.mins) =
                IF \A h \in groups : DtSecs(h.tr.end) <= DtSecs(g.tr.end)
                THEN LastLen(total, p) ELSE p
    /\ Cardinality(UNION { g.mins : g \in groups }) = total

\* the 1-minute times of day of the sessions of a row of the hq session table
HqDayTimes(b) ==
    LET row == HqRangeRows[b]
    IN  UNION { { (row.open_times[i] + 60 * k) % DaySecs :
                    k \in 1 .. (((row.close_times[i] - row.open_times[i])
                                    % DaySecs) \div 60) } :
                i \in 1 .. Len(row.open_times) }

\* the close of the last session of the row
HqLastClose(b) == HqRangeRows[b].close_times[Len(HqRangeRows[b].close_times)]

\* t lies in the window of g, which may run over midnight
InWindow(g, t) ==
    (t - g.info.s_time) % DaySecs <= (g.info.e_time - g.info.s_time) % DaySecs

\* the windows of a period table: each time inside its own and in no other,
\* all but the last of the day of p times and the last of the remainder
HqPartitionOf(groups, b, p) ==
    /\ \A g \in groups :
          /\ \A t \in g.times : InWindow(g, t)
          /\ \A h \in groups : h # g => \A t \in h.times : ~InWindow(g, t)
          /\ Cardinality(g.times) =
                IF g.info.e_time = HqLastClose(b)
                THEN LastLen(Cardinality(HqDayTimes(b)), p) ELSE p
    /\ UNION { g.times : g \in groups } = HqDayTimes(b)

\* C17: the 30m/60m/120m windows of ConvertTo30m60m120m (src/qh) and of the
\* period tables of init_from_time_range (src/hq) partition the 1-minute
\* timestamps of a trading day; every window but the last holds exactly p of
\* them and the last holds the remainder.
C17_WindowsPartitionDay ==
    /\ q.op = "xm_sub_30m60m120m" =>
          /\ q.res.ok
          /\ PartitionOf(q.res.v, QhDayMinutes(q.breed), Pv(q.period).v)
    /\ (q.op = "hq_xm_windows" /\ q.res.ok) =>
          HqPartitionOf(q.res.v, q.breed, Pv(q.period).v)

\* ag at 120m: the last window holds the 75 timestamps left over, and one
\* window runs from the night into the day session
C17_Witness ==
    /\ q.op = "xm_sub_30m60m120m"
    /\ q.breed = "AG" /\ q.period = "120m"
    /\ q.res.ok
    /\ \E g \in q.res.v : Cardinality(g.mins) = 75
    /\ \E g \in q.res.v :
          /\ g.tr.start.tod = MkTime(1, 1, 0)
          /\ g.tr.end.tod = MkTime(9, 30, 0)
          /\ Cardinality(g.mins) = 120

\* the 60m table of ag in src/hq: ten windows, the last of 15 times
C17_WitnessHq ==
    /\ q.op = "hq_xm_windows"
    /\ q.breed = "ag" /\ q.period = "60m"
    /\ q.res.ok
    /\ Cardinality(q.res.v) = 10
    /\ \E g \in q.res.v :
          g.info.e_time = MkTime(15, 0, 0) /\ Cardinality(g.times) = 15

\* ------------------------------------- C18: 1m then 60m against the table
\* the place of a time of day in the trading day, which begins in the evening
DayKey(t) == (t - MkTime(20, 0, 0)) % DaySecs

\* the 1-minute times of day of the sessions of a row of the qh session table
QhDayTimes(b) ==
    UNION { { (HhmmTime(QhRow(b)[2 * i - 1]) + 60 * k) % DaySecs :
                k \in 0 .. (((HhmmTime(QhRow(b)[2 * i])
                               - HhmmTime(QhRow(b)[2 * i - 1])) % DaySecs)
                               \div 60) } :
            i \in 1 .. (Len(QhRow(b)) \div 2) }

\* counting the session minutes of a breed from the first open
QhMinuteCount ==
    [ b \in { "IC", "al", "ag" } |->
        [ t \in QhDayTimes(b) |->
            Cardinality({ x \in QhDayTimes(b) : DayKey(x) <= DayKey(t) }) ] ]

HqMinuteCount ==
    [ b \in { "IC", "zn", "ag" } |->
        [ t \in HqDayTimes(b) |->
            Cardinality({ x \in HqDayTimes(b) : DayKey(x) <= DayKey(t) }) ] ]

\* the bucket of p minutes holding the session minute t: it closes at every
\* p-th session minute and at the last one
DirectBucket(count, p, t) ==
    LET total == Cardinality(DOMAIN count)
        k == (count[t] - 1) \div p
        last == IF (k + 1) * p < total THEN (k + 1) * p ELSE total
    IN  [start |-> CHOOSE x \in DOMAIN count : count[x] = k * p + 1,
         end |-> CHOOSE x \in DOMAIN count : count[x] = last]

\* the tick lies inside a session of the row: from its open, a minute before
\* its first 1-minute timestamp, to its close
QhInSession(b, tod) ==
    \E i \in 1 .. (Len(QhRow(b)) \div 2) :
        (tod - (HhmmTime(QhRow(b)[2 * i - 1]) - 60)) % DaySecs
          <= (HhmmTime(QhRow(b)[2 * i]) - (HhmmTime(QhRow(b)[2 * i - 1]) - 60))
                % DaySecs

\* C18: for a tick inside a session of the breed, the 1m bucketer followed by
\* the 60m bucketer gives the bucket obtained from the session table by
\* counting session minutes from the first open and closing a bucket every 60
\* minutes: the same start and end time of day around the 1-minute timestamp
\* (src/qh), the same end time of day at or after it (src/hq).
C18_ComposedIsDirect ==
    /\ (q.op = "to_1m_then_60m" /\ QhInSession(q.breed, q.tod)) =>
          /\ q.res.m1.ok
          /\ q.res.m1.v.tod \in QhDayTimes(q.breed)
          /\ q.res.xm.ok
          /\ LET direct == DirectBucket(QhMinuteCount[q.breed], 60,
                                        q.res.m1.v.tod)
             IN  /\ q.res.xm.v.start.tod = direct.start
                 /\ q.res.xm.v.end.tod = direct.end
          /\ DtSecs(q.res.xm.v.start) <= DtSecs(q.res.m1.v)
          /\ DtSecs(q.res.m1.v) <= DtSecs(q.res.xm.v.end)
    /\ (q.op = "hq_to_1m_then_60m" /\ HqInSession(q.breed, q.tod)) =>
          /\ q.res.m1.v.tod \in HqDayTimes(q.breed)
          /\ q.res.xm.ok
          /\ q.res.xm.v.tod =
                DirectBucket(HqMinuteCount[q.breed], 60, q.res.m1.v.tod).end
          /\ DtSecs(q.res.m1.v) <= DtSecs(q.res.xm.v)

\* a tick of ag at 02:00:30 on a Saturday: the 1-minute timestamp 02:01 opens
\* the window that closes at 09:30 of the next trading day
C18_Witness ==
    /\ q.op = "to_1m_then_60m"
    /\ q.breed = "ag" /\ q.day = 5 /\ q.tod = MkTime(2, 0, 30)
    /\ q.res.m1.ok /\ q.res.m1.v = Dt(5, MkTime(2, 1, 0))
    /\ q.res.xm.ok
    /\ q.res.xm.v.start = Dt(5, MkTime(2, 1, 0))
    /\ q.res.xm.v.end.tod = MkTime(9, 30, 0)
    /\ q.res.xm.v.end.date > 5

\* ------------------------------------------- C19: the window of a day
\* C19: every 1-minute timestamp of a trading day T gets the same daily
\* window; it ends at T's last close, dated T, and starts at the first open
\* dated T for a breed without a night session, at the night open 21:01
\* dated prev_trading_day(T) for a breed with one.
C19_OneWindowPerDay ==
    q.op = "to_1d_sub" =>
        LET T == NextTradingDay(q.day)
        IN  q.res =
              { Ok(TimeRangeDateTime(
                    IF QhNightBreed(q.breed)
                    THEN Dt(PrevTradingDay(T), MkTime(21, 1, 0))
                    ELSE Dt(T, QhDayOpen1(q.breed)),
                    Dt(T, QhDayClose(q.breed)))) }

\* ag on a trading Friday: the night session of Friday and Saturday and the
\* day session of the next trading day all get Friday 21:01 to that day 15:00
C19_Witness ==
    /\ q.op = "to_1d_sub"
    /\ q.breed = "AG" /\ q.day = 4
    /\ q.res = { Ok(TimeRangeDateTime(
                      Dt(4, MkTime(21, 1, 0)),
                      Dt(NextTradingDay(4), MkTime(15, 0, 0)))) }

\* ------------------------------------------- C20: the week of an input
\* the Friday of the week (Monday to Sunday) the date lies in
FridayOfWeek(d) ==
    CHOOSE x \in (d - 6) .. (d + 6) :
        x % 7 = 4 /\ x - 4 <= d /\ d <= x + 2

\* the first Friday after the date
FridayAfter(d) == CHOOSE x \in (d + 1) .. (d + 7) : x % 7 = 4

\* the end date the week of the query starts from
C20Expected ==
    IF q.day % 7 \in { 5, 6 } THEN FridayAfter(q.day)
    ELSE IF q.day % 7 = 4 /\ q.tod > MkTime(21, 0, 0) THEN FridayAfter(q.day)
    ELSE FridayOfWeek(q.day)

C20_WitnessBefore ==
    /\ q.op = "time_range_1w"
    /\ q.breed = "ag" /\ q.day = 4 /\ q.tod = MkTime(21, 0, 0)
    /\ q.res.nominal = 4
    /\ q.res.range.ok
    /\ q.res.range.v = TimeRangeDateTime(Dt(-3, MkTime(21, 1, 0)),
                                         Dt(4, MkTime(15, 0, 0)))

\* ----------------------------------- C21: a week without a trading day
\* the trading days whose close lies in the week that begins at the start
\* date and ends on the nominal end date
WeekTradingDays ==
    { d \in dbDays :
        /\ d <= q.res.nominal
        /\ IF QhNightBreed(q.breed) THEN d > q.res.start
           ELSE d >= q.res.start }

\* C21: with the nominal end date inside the loaded calendar, the weekly
\* bucketer fails with WeekNotHadTxDay exactly when the week holds no trading
\* day; otherwise it returns a window whose end date is a trading day: the
\* nominal end date, or the latest trading day before it when that is not one.
C21_WeekWithoutTradingDay ==
    (q.op = "long_time_range_1w" /\ InLoadedRange(q.res.nominal)) =>
        IF WeekTradingDays = {}
        THEN ~q.res.range.ok /\ q.res.range.err = "WeekNotHadTxDay"
        ELSE /\ q.res.range.ok
             /\ q.res.range.v.end.date \in dbDays
             /\ q.res.range.v.end.date =
                   (IF q.res.nominal \in dbDays THEN q.res.nominal
                    ELSE PrevTradingDay(q.res.nominal))

\* a week of holidays, Monday to Friday: IC asked on its Wednesday
C21_Witness ==
    /\ q.op = "long_time_range_1w"
    /\ q.breed = "IC" /\ q.day = 9
    /\ q.res.nominal = 11
    /\ dbDays \cap (7 .. 11) = {}
    /\ 4 \in dbDays
    /\ ~q.res.range.ok /\ q.res.range.err = "WeekNotHadTxDay"

\* Wednesday to Friday are holidays: the week ends on its Tuesday
C21_WitnessRolledBack ==
    /\ q.op = "long_time_range_1w"
    /\ q.breed = "ag" /\ q.day = 7
    /\ dbDays \cap (9 .. 11) = {} /\ 8 \in dbDays
    /\ q.res.range.ok
    /\ q.res.range.v.end = Dt(8, MkTime(15, 0, 0))

\* ------------------------------------------- C22: the month of an input
\* the first days of the months, read off the civil calendar of 2024
RefMonthStarts == { 0, 31, 60, 91, 121 }

\* the first day of the month of a date, and of the month after it
RefMonthFirst(d) ==
    CHOOSE x \in RefMonthStarts :
        x <= d /\ \A y \in RefMonthStarts : y <= d => y <= x
RefNextMonthFirst(d) ==
    CHOOSE x \in RefMonthStarts :
        x > d /\ \A y \in RefMonthStarts : y > d => x <= y

\* the last trading day on or before the last day of the month that begins
\* on first
LastTradingDayOfMonth(first) == PrevTradingDay(RefNextMonthFirst(first))

\* the input is after the last close of its month's last trading day
AfterMonthEnd ==
    DtSecs(Dt(q.day, q.tod)) >
        DtSecs(Dt(LastTradingDayOfMonth(RefMonthFirst(q.day)),
                  QhDayClose(q.breed)))

\* the month the input of the query is assigned to, by its first day
C22Month ==
    IF QhNightBreed(q.breed) /\ AfterMonthEnd
    THEN RefNextMonthFirst(q.day) ELSE RefMonthFirst(q.day)

\* C22: the monthly window ends on the last trading day on or before the
\* last day of the input's month; for a breed with a night session an input
\* after that end belongs to the next month, and the window starts one
\* trading day before the month's first trading day.
C22_MonthEndAndStart ==
    (q.op = "time_range_1month" /\ q.res.ok) =>
        \A m \in { C22Month } :
            /\ q.res.v.end = Dt(LastTradingDayOfMonth(m), QhDayClose(q.breed))
            /\ QhNightBreed(q.breed) =>
                  \A F \in dbDays :
                      (F >= m /\ \A x \in dbDays : x >= m => F <= x)
                        => q.res.v.start
                              = Dt(PrevTradingDay(F), MkTime(21, 1, 0))

\* ag in the evening of Wednesday 2024-01-31, a trading day: the window is
\* February's, from that evening to the close of 2024-02-29
C22_Witness ==
    /\ q.op = "time_range_1month"
    /\ q.breed = "ag" /\ q.day = 30 /\ q.tod = MkTime(21, 30, 0)
    /\ { 30, 31, 59 } \subseteq dbDays
    /\ q.res.ok
    /\ q.res.v = TimeRangeDateTime(Dt(30, MkTime(21, 1, 0)),
                                   Dt(59, MkTime(15, 0, 0)))

\* ------------------------------------- C23: bucketing a bucket timestamp
\* a whole minute inside a session of the breed, after its open
InSessionMinute(b, tod) ==
    /\ Second(tod) = 0
    /\ \E i \in 1 .. (Len(QhRow(b)) \div 2) :
        (tod - HhmmTime(QhRow(b)[2 * i - 1])) % DaySecs
          <= (HhmmTime(QhRow(b)[2 * i]) - HhmmTime(QhRow(b)[2 * i - 1]))
                % DaySecs

\* the time of day is the close of a session of the breed
IsSessionClose(b, tod) ==
    \E i \in 1 .. (Len(QhRow(b)) \div 2) : tod = HhmmTime(QhRow(b)[2 * i])

BucketedInSession ==
    /\ q.op = "bucket_twice"
    /\ InSessionMinute(q.breed, q.tod)
    /\ q.res.first.ok

\* C23 as stated: for every breed, every period and every in-session
\* timestamp, bucketing the bucket timestamp again with the same period
\* returns it unchanged.
C23_BucketIdempotent ==
    BucketedInSession => q.res.again = q.res.first

\* C23: the window end time_range_xm returns is a fixed point of
\* time_range_xm for every period from 3m to 1month; the 1m bucketer returns
\* its own result unchanged only when that result is a session close or
\* midnight, and otherwise the minute after it.
C23_WindowEndIdempotent ==
    BucketedInSession =>
        IF q.period # "1m" THEN q.res.again = q.res.first
        ELSE IF \/ IsSessionClose(q.breed, q.res.first.v.tod)
                \/ q.res.first.v.tod = 0
        THEN q.res.again = q.res.first
        ELSE q.res.again = Ok(AddMinutes(q.res.first.v, 1))

\* ag on Friday at 21:30 with the period 1w: the week ends at the close of
\* the next Friday, and that close is bucketed into itself
C23_Witness ==
    /\ BucketedInSession
    /\ q.breed = "ag" /\ q.period = "1w"
    /\ q.day = 4 /\ q.tod = MkTime(21, 30, 0)
    /\ q.res.first = Ok(Dt(11, MkTime(15, 0, 0)))
    /\ q.res.again = q.res.first

\* ag at 09:01:00 with the period 1m: the bucket is 09:02:00, whose bucket
\* is 09:03:00
C23_WitnessMinute ==
    /\ BucketedInSession
    /\ q.breed = "ag" /\ q.period = "1m" /\ q.tod = MkTime(9, 1, 0)
    /\ q.res.first.v.tod = MkTime(9, 2, 0)
    /\ q.res.again.ok /\ q.res.again.v.tod = MkTime(9, 3, 0)

\* ------------------------------------- C24: the first minute of a day
\* C24: on a trading day is_first_minute is true for exactly one time of
\* day: the night open plus one minute when the breed has a night session
\* and the calendar record of the day has one, and the day-session open plus
\* one minute otherwise; it is false for every other time of day.
C24_OneFirstMinute ==
    /\ (q.op = "is_first_minute" /\ QhKnown(q.breed) /\ q.day \in dbDays) =>
          q.res.v = { IF QhNightBreed(q.breed) /\ QhRecHasNight(q.day)
                      THEN QhNightOpen1(q.breed) ELSE QhDayOpen1(q.breed) }
    /\ (q.op = "hq_is_first_minute" /\ HqKnown(q.breed) /\ q.day \in dbDays) =>
          q.res.v = { IF HqNightBreed(q.breed) /\ HqRecHasNight(q.day)
                      THEN HqNightOpen1(q.breed) ELSE HqDayOpen1(q.breed) }

\* ag on the Monday after a Friday holiday: no night session leads into the
\* day, so 09:01 is the first minute and 21:01 is not
C24_Witness ==
    /\ q.op = "is_first_minute" /\ q.breed = "ag" /\ q.day = 7
    /\ { 3, 7 } \subseteq dbDays /\ 4 \notin dbDays
    /\ ~QhRecHasNight(7)
    /\ q.res.v = { MkTime(9, 1, 0) }

\* ag on a day whose record has a night session, src/hq: 21:01 is the first
\* minute and 09:01 is not
C24_WitnessNight ==
    /\ q.op = "hq_is_first_minute" /\ q.breed = "ag" /\ q.day \in dbDays
    /\ HqRecHasNight(q.day)
    /\ q.res.v = { MkTime(21, 1, 0) }

\* ------------------------------------ C25: one record per date in range
\* C25: after the calendars are built every date between the earliest and
\* the latest loaded trading day has a record; the record back-filled for a
\* date that is not a trading day is non-trading, has no night session, and
\* links to the earliest trading day after the date and the latest before it.
C25_OneRecordPerDate ==
    \A d \in FirstLoaded .. LastLoaded :
        /\ d \in DOMAIN qh.TRADING_DAY_UTIL.day_info_map
        /\ d \in DOMAIN hq.TRADE_DAY_HMAP.v
        /\ d \notin dbDays =>
            LET r == qh.TRADING_DAY_UTIL.day_info_map[d]
                h == hq.TRADE_DAY_HMAP.v[d]
                td_vec == qh.TRADING_DAY_UTIL.td_vec
            IN  /\ ~r.is_td /\ ~r.has_night
                /\ VecGet(td_vec, r.next_idx) = Some(NextTradingDay(d))
                /\ VecGet(td_vec, r.prev_idx) = Some(PrevTradingDay(d))
                /\ h.day = d /\ ~h.is_trade_day /\ ~h.has_night
                /\ h.td_next = NextTradingDay(d)
                /\ h.td_prev = PrevTradingDay(d)

\* Tuesday and Wednesday of the first week are holidays: the records of both
\* dates link back to Monday and forward to Thursday, and next(Tuesday)
\* answers Thursday from the back-filled record
C25_Witness ==
    /\ { 0, 3 } \subseteq dbDays /\ 1 \notin dbDays /\ 2 \notin dbDays
    /\ q.op = "tdu_next" /\ q.day = 1 /\ q.res = Ok(3)
    /\ \A d \in { 1, 2 } :
        /\ d \in DOMAIN qh.TRADING_DAY_UTIL.day_info_map
        /\ ~qh.TRADING_DAY_UTIL.day_info_map[d].is_td
        /\ VecGet(qh.TRADING_DAY_UTIL.td_vec,
                  qh.TRADING_DAY_UTIL.day_info_map[d].next_idx) = Some(3)
        /\ VecGet(qh.TRADING_DAY_UTIL.td_vec,
                  qh.TRADING_DAY_UTIL.day_info_map[d].prev_idx) = Some(0)
        /\ hq.TRADE_DAY_HMAP.v[d].td_next = 3
        /\ hq.TRADE_DAY_HMAP.v[d].td_prev = 0

\* ------------------------------------- C26: readers and the publication
\* the table before the first load and the table built from the store
WholeSnapshots == { TduDefault, TduLoaded(dbDays) }

\* the task is inside a reading call, after its current()
Holding(t) ==
    /\ cur[t].entry = "TradingDayUtil::next"
    /\ Len(stack[t]) > 0
    /\ Top(t).pc = "use"

\* the task has finished a reading call
HasRead(t) ==
    /\ cur[t].entry = "TradingDayUtil::next"
    /\ stack[t] = << >>
    /\ cur[t].ret # "none"

\* C26: what current() hands out, at any moment of a concurrent
\* initialization, is the table from before the load or the completely built
\* one; a reader's snapshot does not change while the reader holds it, and
\* the reader answers from the snapshot it took, whatever was published since.
C26_ReadersSeeWholeSnapshots ==
    [][ /\ qh'.TRADING_DAY_UTIL \in WholeSnapshots
        /\ \A t \in Tasks :
            /\ Holding(t)' => cur'[t].held \in WholeSnapshots
            /\ (Holding(t) /\ Holding(t)') => cur'[t].held = cur[t].held
            /\ (Holding(t) /\ HasRead(t)') =>
                   /\ cur'[t].held = cur[t].held
                   /\ cur'[t].ans = TduNext(cur[t].held, 4) ]_vars

\* a reader took the empty table, another task published the loaded one,
\* and the reader finished on the table it held: next fails although the
\* published table knows the day
C26_Witness ==
    \E t \in Tasks :
        /\ HasRead(t)
        /\ cur[t].held = TduDefault
        /\ ~cur[t].ans.ok
        /\ qh.TRADING_DAY_UTIL = TduLoaded(dbDays)
        /\ TduNext(qh.TRADING_DAY_UTIL, 4).ok

\* a reader that began while another task was loading holds the completely
\* built table and answers from it
C26_WitnessLoaded ==
    \E t \in Tasks :
        /\ HasRead(t)
        /\ cur[t].held = TduLoaded(dbDays)
        /\ cur[t].ans = Ok(IF 7 \in dbDays THEN 7 ELSE 8)
        /\ \E u \in Tasks \ { t } : cur[u].entry = "TradingDayUtil::init"

\* ------------------------------------- C27: the next close after a time
\* the closes of the session segments that take place: the day segments of
\* every trading day, and the night segment that begins on the evening of a
\* trading day whose record has a night session
HqTradedCloses(b) ==
    { Dt(d, HqCloses(b)[i]) :
        d \in dbDays,
        i \in (IF HqNightBreed(b) THEN 2 ELSE 1) .. Len(HqCloses(b)) }
    \cup
    (IF HqNightBreed(b)
     THEN { Dt(IF HqNightClose(b) < HqOpens(b)[1] THEN d + 1 ELSE d,
               HqNightClose(b)) : d \in { x \in dbDays : HqRecHasNight(x) } }
     ELSE {})

\* the traded closes at or after the time of the query cut to its minute
ClosesFrom(b, d, tod) ==
    { c \in HqTradedCloses(b) :
        DtSecs(c) >= DtSecs(Dt(d, MkTime(Hour(tod), Minute(tod), 0))) }

\* C27: for a time in the calendar range (the day before it in range too)
\* with a traded close at or after it, next_close_time returns the earliest
\* close, at or after the time cut to its minute, of a session segment that
\* takes place.
C27_EarliestTradedClose ==
    (/\ q.op = "hq_next_close_time"
     /\ InLoadedRange(q.day) /\ InLoadedRange(q.day - 1)
     /\ ClosesFrom(q.breed, q.day, q.tod) # {}) =>
        /\ q.res.ok
        /\ q.res.v \in ClosesFrom(q.breed, q.day, q.tod)
        /\ \A c \in ClosesFrom(q.breed, q.day, q.tod) :
              DtSecs(q.res.v) <= DtSecs(c)

\* zn at 00:30 on a trading Monday: the record of Sunday has no night
\* session, and the answer is the first close of Tuesday (of the next trading
\* day after Monday), past the three day segments of Monday
C27_SkipsTheDaySession ==
    /\ q.op = "hq_next_close_time" /\ q.breed = "zn"
    /\ q.day = 7 /\ q.tod = MkTime(0, 30, 0)
    /\ { 7, 8 } \subseteq dbDays
    /\ q.res = Ok(Dt(8, MkTime(10, 15, 0)))
    /\ Dt(7, MkTime(10, 15, 0)) \in ClosesFrom("zn", 7, MkTime(0, 30, 0))

\* ------------------------------------- C28: the walk comes back round
\* C28: from the first minute of a session on a date well inside the
\* calendar, applying next_minute again and again never fails and reaches a
\* timestamp with the starting time of day again.
C28_WalkComesBack ==
    /\ [](q.op = "walk" => q.res.state # "error")
    /\ (Walking ~> (q.op = "walk" /\ q.res.state = "back"))

\* ag from Friday 21:01 with the Monday after it a holiday: the walk is back
\* at 21:01 on the evening of Tuesday, the first evening that leads into a
\* trading day
C28_Witness ==
    /\ q.op = "walk" /\ q.breed = "ag"
    /\ q.day = 4 /\ q.tod = MkTime(21, 1, 0)
    /\ 7 \notin dbDays /\ { 4, 8, 9 } \subseteq dbDays
    /\ q.res.state = "back"
    /\ q.res.c_minute = Dt(8, MkTime(21, 1, 0))

\* ------------------------------------- C29: handles after the init
\* the task called ConvertTo1Month::current() after convert_to_xm::init had
\* returned Ok, and the call is over
AskedAfterInit(t) ==
    /\ cur[t].entry = "ConvertTo1Month::current"
    /\ "convert_to_xm::init" \in cur[t].seen
    /\ stack[t] = << >>
    /\ cur[t].ret # "none"

\* C29: once init has returned Ok, the handle current() gives answers from
\* the calendar and the session tables init loaded, whatever calls of
\* current() were made before.
C29_HandlesAnswerFromLoaded ==
    \A t \in Tasks :
        AskedAfterInit(t) =>
            /\ cur[t].ans.ok
            /\ cur[t].ans.v =
                  TimeRange1month(TrdLoaded, TduLoaded(dbDays), "IC",
                                  Dt(3, MkTime(9, 31, 0))).v

\* a first ConvertTo1Month::current() ran before the session tables were
\* loaded; after init returned Ok a second call still answers BreedNotExist
C29_StaleHandle ==
    \E t \in Tasks :
        /\ AskedAfterInit(t)
        /\ ~cur[t].ans.ok /\ cur[t].ans.err = "BreedNotExist"
        /\ ~TrdIsEmpty(qh.TX_TIME_RANGE_DATA)
        /\ TrdIsEmpty(qh.CONVERT_1MTH.v.trd)

\* --------------------------------- C30: the window holds its timestamp
\* the session the 1-minute timestamp lies in trades on its date: a day
\* session on a trading day, the evening of a night session on a trading day
\* whose next trading day has a night session, the hours after midnight on
\* the day after such an evening
SessionTrades(b, d, tod) ==
    /\ InSessionMinute(b, tod)
    /\ LET evening == IF tod >= MkTime(21, 0, 0) THEN d ELSE d - 1
       IN  IF tod >= MkTime(21, 0, 0) \/ tod <= MkTime(3, 0, 0)
           THEN /\ evening \in dbDays
                /\ LaterDays(evening) # {}
                /\ QhRecHasNight(NextTradingDay(evening))
           ELSE d \in dbDays

\* C30: for every breed, every period among 30m, 60m, 120m, 1d, 1w and
\* 1month and every 1-minute timestamp t inside a session of the breed on a
\* date where that session trades, a successful time_range_xm returns a
\* window with start <= t <= end.
C30_WindowHoldsTimestamp ==
    ( /\ q.op = "window_of"
      /\ SessionTrades(q.breed, q.day, q.tod)
      /\ q.res.ok ) =>
        /\ DtSecs(q.res.v.start) <= DtSecs(Dt(q.day, q.tod))
        /\ DtSecs(Dt(q.day, q.tod)) <= DtSecs(q.res.v.end)

\* ag on Saturday at 01:01 between a trading Friday and a trading Monday: the
\* 120m window runs from Saturday 01:01 to 09:30 of Monday
C30_Witness ==
    /\ q.op = "window_of"
    /\ q.breed = "ag" /\ q.period = "120m"
    /\ q.day = 5 /\ q.tod = MkTime(1, 1, 0)
    /\ { 4, 7 } \subseteq dbDays
    /\ SessionTrades(q.breed, q.day, q.tod)
    /\ q.res.ok
    /\ q.res.v = TimeRangeDateTime(Dt(5, MkTime(1, 1, 0)),
                                   Dt(7, MkTime(9, 30, 0)))

====
